---- MODULE Spec2Model ----
(***************************************************************************)
(* A model of tools/dependency_summary.py: the license preference policy,  *)
(* the metadata fixup step of the catalog constructor, the license file    *)
(* locator, the grouping engine and the markdown renderer.                 *)
(*                                                                         *)
(* A Python string the code takes apart or may find to be None (a license  *)
(* expression, a file name, a URL, a license text) is a sequence of atoms; *)
(* an atom is a word, a separator or one whitespace character, and the     *)
(* empty string is << >>.  Package names and dict keys are TLA+ strings.   *)
(***************************************************************************)
EXTENDS Naturals, Sequences, FiniteSets, TLC

VARIABLES
    pickArgs,     \* pick_most_acceptable_license: [id, licenseId]
    pickResult,   \* what the call returned or raised
    metadata,     \* the `cargo metadata` document given to WorkspaceMetadata()
    catalog,      \* the constructed WorkspaceMetadata, or what __init__ raised
    locateArgs,   \* _find_license_file: [id, license, pkgInfo]
    listdir,      \* the entries of the package directory on disk
    locateResult, \* what the call returned or raised
    deps,         \* the license infos handed to group_dependencies_for_printing
    groups,       \* what group_dependencies_for_printing returned or raised
    printDeps,    \* the license infos handed to print_dependency_summary_markdown
    file,         \* the strings printed to the file so far, one per pf call
    sections,     \* the local `sections` of the renderer
    sectionNo,    \* the position in `sections` of the current loop
    printPc,      \* where the renderer is
    printResult,  \* what print_dependency_summary_markdown returned or raised
    world,        \* the workspace a run resolves: [cdylib, platform, order, failing]
    resolveArgs,  \* get_dependency_summary: [packages, targets]
    frame,        \* the locals of get_dependency_summary and get_package_dependencies
    cargoCalls,   \* the cargo build plan calls made so far: [package, target]
    summary,      \* the license records yielded so far
    resolveResult, \* the groups made of the records, or what the run raised
    recordArgs,   \* get_license_info: [pkgInfo, env]
    recordFrame,  \* the locals of get_license_info
    requests,     \* the requests made of the disk and the web so far: [op, at]
    recordResult  \* the license record, or what get_license_info raised

pickVars == <<pickArgs, pickResult>>

catalogVars == <<metadata, catalog>>

locateVars == <<locateArgs, listdir, locateResult>>

groupVars == <<deps, groups>>

printVars == <<printDeps, file, sections, sectionNo, printPc, printResult>>

resolveVars == <<world, resolveArgs, frame, cargoCalls, summary, resolveResult>>

recordVars == <<recordArgs, recordFrame, requests, recordResult>>

vars == <<pickArgs, pickResult, metadata, catalog, locateArgs, listdir, locateResult,
          deps, groups, printDeps, file, sections, sectionNo, printPc, printResult,
          world, resolveArgs, frame, cargoCalls, summary, resolveResult,
          recordArgs, recordFrame, requests, recordResult>>

\* A call that has not been made yet.
Pending == [kind |-> "pending"]

(***************************************************************************)
(* Generic helpers.                                                        *)
(***************************************************************************)

\* All sequences over S of length 0..n.
SeqsUpTo(S, n) == UNION {[1..k -> S] : k \in 0..n}

\* The atoms Python's \s and str.strip()/str.split() treat as whitespace.
Whitespace == {" ", "\n"}

IsSpace(a) == a \in Whitespace

(***************************************************************************)
(* License preference policy.                                              *)
(***************************************************************************)

\* LICENSES_IN_PREFERENCE_ORDER, most preferred first.
LICENSES_IN_PREFERENCE_ORDER ==
    << << "MPL-2.0" >>, << "Apache-2.0" >>, << "MIT" >>, << "CC0-1.0" >>, << "ISC" >>,
       << "BSD-2-Clause" >>, << "BSD-3-Clause" >>, << "Zlib" >>, << "Unicode-3.0" >>,
       << "EXT-", "OPENSSL" >>, << "EXT-", "SQLITE" >> >>

\* The two literal expressions pick_most_acceptable_license returns verbatim.
EncodingRsLicense ==
    << "(", "Apache-2.0", " ", "OR", " ", "MIT", ")", " ", "AND", " ", "BSD-3-Clause" >>

UnicodeIdentLicense ==
    << "(", "MIT", " ", "OR", " ", "Apache-2.0", ")", " ", "AND", " ", "Unicode-3.0" >>

\* First index >= i of s that holds no whitespace, Len(s) + 1 when there is none.
RECURSIVE SkipSpaces(_, _)
SkipSpaces(s, i) ==
    IF i <= Len(s) /\ IsSpace(s[i]) THEN SkipSpaces(s, i + 1) ELSE i

\* The regular expression \s*(?:/|\sOR\s)\s* matched at position i of s: the
\* index after the match, 0 when it does not match there.  The leading \s* is
\* greedy and backtracks by one whitespace to feed the \s before OR.
MatchEnd(s, i) ==
    LET p == SkipSpaces(s, i)
    IN  IF p <= Len(s) /\ s[p] = "/"
        THEN SkipSpaces(s, p + 1)
        ELSE IF p > i /\ p + 1 <= Len(s) /\ s[p] = "OR" /\ IsSpace(s[p + 1])
             THEN SkipSpaces(s, p + 2)
             ELSE 0

\* re.split: the pieces of s between the leftmost non-overlapping matches,
\* scanning from i with the current piece starting at start.
RECURSIVE ReSplit(_, _, _)
ReSplit(s, start, i) ==
    IF i > Len(s)
    THEN << SubSeq(s, start, Len(s)) >>
    ELSE IF MatchEnd(s, i) # 0
         THEN << SubSeq(s, start, i - 1) >> \o ReSplit(s, MatchEnd(s, i), MatchEnd(s, i))
         ELSE ReSplit(s, start, i + 1)

\* str.strip(): leading and trailing whitespace removed.
RECURSIVE Strip(_)
Strip(s) ==
    IF s = << >> THEN s
    ELSE IF IsSpace(s[1]) THEN Strip(Tail(s))
    ELSE IF IsSpace(s[Len(s)]) THEN Strip(SubSeq(s, 1, Len(s) - 1))
    ELSE s

\* set(l.strip() for l in re.split(r"\s*(?:/|\sOR\s)\s*", licenseId))
SplitLicenses(licenseId) ==
    LET pieces == ReSplit(licenseId, 1, 1)
    IN  { Strip(pieces[k]) : k \in 1..Len(pieces) }

\* The loop over LICENSES_IN_PREFERENCE_ORDER: the indices whose license is
\* in the split set; the loop returns at the least of them.
AcceptableIndices(licenses) ==
    { i \in 1..Len(LICENSES_IN_PREFERENCE_ORDER) :
        LICENSES_IN_PREFERENCE_ORDER[i] \in licenses }

Least(S) == CHOOSE i \in S : \A j \in S : i <= j

\* A bug the scan could have: returning the least preferred acceptable license.
PickScanLastMatch(licenses) ==
    LET S == AcceptableIndices(licenses)
    IN  LICENSES_IN_PREFERENCE_ORDER[CHOOSE i \in S : \A j \in S : j <= i]

\* for license in LICENSES_IN_PREFERENCE_ORDER: if license in licenses: return license
PickScan(licenses) ==
    LICENSES_IN_PREFERENCE_ORDER[Least(AcceptableIndices(licenses))]

\* A bug the special cases could have: any expression with AND passes through.
IsSpecialCaseAnyAnd(licenseId) ==
    \E k \in 1..Len(licenseId) : licenseId[k] = "AND"

\* The two `if licenseId == ...: return licenseId` special cases.
IsSpecialCase(licenseId) ==
    licenseId = EncodingRsLicense \/ licenseId = UnicodeIdentLicense

\* A bug the failure path could have: falling back to the raw expression.
PickNoMatchReturnsRaw(id, licenseId) ==
    [kind |-> "return", value |-> licenseId]

\* raise RuntimeError(f"Could not determine acceptable license for {id}; license is '{licenseId}'")
PickNoMatch(id, licenseId) ==
    [kind |-> "raise", error |-> "RuntimeError",
     message |-> [text |-> "Could not determine acceptable license for {id}; license is '{licenseId}'",
                  id |-> id, licenseId |-> licenseId]]

\* WorkspaceMetadata.pick_most_acceptable_license(id, licenseId)
pick_most_acceptable_license(id, licenseId) ==
    IF IsSpecialCase(licenseId)
    THEN [kind |-> "return", value |-> licenseId]
    ELSE IF AcceptableIndices(SplitLicenses(licenseId)) # {}
         THEN [kind |-> "return", value |-> PickScan(SplitLicenses(licenseId))]
         ELSE PickNoMatch(id, licenseId)

\* Longest license expression enumerated atom by atom.
MaxExprLen == 5

\* The atoms of the enumerated expressions.
ExprAtoms == {"Apache-2.0", "MIT", "GPL-3.0", " ", "/", "OR", "AND"}

\* Expressions found in the fixup table and variations of the special cases.
LongExprs ==
    { EncodingRsLicense, UnicodeIdentLicense,
      << "(", "MIT", " ", "OR", " ", "Apache-2.0", ")", " ", "AND", " ", "BSD-3-Clause" >>,
      << "(", "Apache-2.0", " ", "OR", " ", "MIT", ")", " ", " ", "AND", " ", "BSD-3-Clause" >>,
      << "(", "Apache-2.0", " ", "OR", " ", "MIT", ")", " ", "AND", " ", "BSD-3-Clause", " " >>,
      << "MIT", " ", "OR", " ", "Apache-2.0", " ", "OR", " ", "Zlib" >>,
      << "Unicode-3.0", " ", "AND", " ", "MIT", "/", "Zlib" >>,
      << "GPL-3.0", " ", "OR", " ", "OR", " ", "MIT" >>,
      << "GPL-3.0", "\n", "OR", "\n", "BSD-3-Clause", " ", "/", " ", "ISC" >> }

LicenseExprs == SeqsUpTo(ExprAtoms, MaxExprLen) \cup LongExprs

PackageIds == { <<"dep-a", "1.0">>, <<"dep-b", "2.0">> }

\* The policy is not exercised: no call is pending or made.
PickIdle ==
    /\ pickArgs = [id |-> <<"dep-a", "1.0">>, licenseId |-> << >>]
    /\ pickResult = [kind |-> "idle"]

PickInit ==
    /\ pickArgs \in [id : PackageIds, licenseId : LicenseExprs]
    /\ pickResult = Pending

\* One call of pick_most_acceptable_license on the arguments drawn by Init.
PickMostAcceptableLicense ==
    /\ pickResult = Pending
    /\ pickResult' = pick_most_acceptable_license(pickArgs.id, pickArgs.licenseId)
    /\ UNCHANGED pickArgs
    /\ UNCHANGED <<catalogVars, locateVars, groupVars, printVars, resolveVars, recordVars>>

(***************************************************************************)
(* Catalog construction: WorkspaceMetadata.__init__.                       *)
(*                                                                         *)
(* A package's info is a Python dict: a function from the keys present to  *)
(* their values.  Package ids are tuples: <<name, version>> for a package  *)
(* cargo knows, <<name>> for a package managed outside of cargo.  A URL is  *)
(* a sequence of atoms: the scheme with its "://", the host, and then "/"  *)
(* and path segments.                                                      *)
(***************************************************************************)

\* Python's None, as a value no string equals.
None == << "<None>" >>

\* dict.get(key): None when the key is absent.
Get(info, key) == IF key \in DOMAIN info THEN info[key] ELSE None

\* dict[key] = value
Put(info, key, value) ==
    [k \in DOMAIN info \cup {key} |-> IF k = key THEN value ELSE info[k]]

EXCLUDED_PACKAGES == {"cloudabi", "fuchsia-cprng", "fuchsia-zircon", "fuchsia-zircon-sys"}

\* The keys of EXTRA_PACKAGE_METADATA, in the order of the dict.
EXTRA_PACKAGE_NAMES ==
    << "ext-jna", "ext-protobuf", "ext-swift-keychain-wrapper", "ext-nss",
       "ext-nspr", "ext-openssl", "ext-ring", "ext-sqlite" >>

\* EXTRA_PACKAGE_METADATA[name]; an embedded license text is named, not spelled.
EXTRA_PACKAGE_METADATA(name) ==
    CASE name = "ext-jna" ->
           [name |-> "jna",
            repository |-> << "https://", "github.com", "/", "java-native-access", "/", "jna" >>,
            license |-> << "Apache-2.0" >>,
            license_file |->
                << "https://", "raw.githubusercontent.com", "/", "java-native-access", "/", "jna", "/", "master", "/", "AL2.0" >>]
      [] name = "ext-protobuf" ->
           [name |-> "protobuf",
            repository |-> << "https://", "github.com", "/", "protocolbuffers", "/", "protobuf" >>,
            license |-> << "BSD-3-Clause" >>,
            license_file |->
                << "https://", "raw.githubusercontent.com", "/", "protocolbuffers", "/", "protobuf", "/", "master", "/", "LICENSE" >>]
      [] name = "ext-swift-keychain-wrapper" ->
           [name |-> "SwiftKeychainWrapper",
            repository |->
                << "https://", "github.com", "/", "jrendel", "/", "SwiftKeychainWrapper" >>,
            license |-> << "MIT" >>,
            license_file |->
                << "https://", "raw.githubusercontent.com", "/", "jrendel", "/", "SwiftKeychainWrapper", "/", "develop", "/", "LICENSE" >>]
      [] name = "ext-nss" ->
           [name |-> "NSS",
            repository |-> << "https://", "hg.mozilla.org", "/", "projects", "/", "nss" >>,
            license |-> << "MPL-2.0" >>,
            license_file |->
                << "https://", "hg.mozilla.org", "/", "projects", "/", "nss", "/", "raw-file", "/", "tip", "/", "COPYING" >>]
      [] name = "ext-nspr" ->
           [name |-> "NSPR",
            repository |-> << "https://", "hg.mozilla.org", "/", "projects", "/", "nspr" >>,
            license |-> << "MPL-2.0" >>,
            license_file |->
                << "https://", "hg.mozilla.org", "/", "projects", "/", "nspr", "/", "raw-file", "/", "tip", "/", "LICENSE" >>]
      [] name = "ext-openssl" ->
           [name |-> "openssl",
            repository |-> << "https://", "www.openssl.org", "/", "source", "/" >>,
            license |-> << "EXT-", "OPENSSL" >>,
            license_file |->
                << "https://", "openssl-library.org", "/", "source", "/", "license", "/", "license-openssl-ssleay.txt" >>,
            license_url |-> << "https://", "www.openssl.org", "/", "source", "/", "license.html" >>]
      [] name = "ext-ring" ->
           [name |-> "ring",
            repository |-> << "https://", "github.com", "/", "briansmith", "/", "ring" >>,
            license |-> << "ISC" >>,
            license_file |->
                << "https://", "raw.githubusercontent.com", "/", "briansmith", "/", "ring", "/", "master", "/", "LICENSE" >>,
            license_url |->
                << "https://", "github.com", "/", "briansmith", "/", "ring", "/", "blob", "/", "master", "/", "LICENSE" >>,
            license_text |->
                << "Copyright 2015-2016 Brian Smith.", "\n", "Permission to use, ..." >>]
      [] name = "ext-sqlite" ->
           [name |-> "sqlite",
            repository |-> << "https://", "www.sqlite.org", "/" >>,
            license |-> << "EXT-", "SQLITE" >>,
            license_file |-> << "https://", "sqlite.org", "/", "copyright.html" >>,
            license_text |-> << "This software makes use of the 'SQLite' database engine, ..." >>]

\* The packages of PACKAGE_METADATA_FIXUPS the model carries.
FIXUP_PACKAGES == {"publicsuffix", "miniz_oxide", "windows-link"}

\* PACKAGE_METADATA_FIXUPS[name].items(): the (key, change) pairs in the order
\* of the dict.  A change is a dict with the keys "check" and "fixup", either
\* of which some entries leave out.
PACKAGE_METADATA_FIXUPS(name) ==
    CASE name = "publicsuffix" ->
           << [key |-> "license", change |-> [check |-> << "MIT", "/", "Apache-2.0" >>]],
              [key |-> "license_file",
               change |-> [check |-> None, fixup |-> << "LICENSE", "-APACHE" >>]] >>
      [] name = "miniz_oxide" ->
           << [key |-> "license",
               change |-> [check |-> << "MIT", " ", "OR", " ", "Zlib", " ", "OR", " ", "Apache-2.0" >>,
                           fixup |-> << "MIT" >>]],
              [key |-> "license_file",
               change |-> [check |-> None,
                           fixup |-> << "https://", "raw.githubusercontent.com/Frommi/miniz_oxide/master/miniz_oxide/LICENSE-MIT.md" >>]] >>
      [] name = "windows-link" ->
           << [key |-> "license_url",
               change |-> [fixup |-> << "https://", "github.com/microsoft/windows-rs/blob/master/license-apache-2.0" >>]],
              [key |-> "license_file",
               change |-> [fixup |-> << "https://", "raw.githubusercontent.com/microsoft/windows-rs/master/license-apache-2.0" >>]] >>

\* What the failed check raises.  The assertion message reads change["check"],
\* which is a KeyError for a change that has no "check" key.
FixupCheckFailed(info, key, change) ==
    IF "check" \in DOMAIN change
    THEN [kind |-> "raise", error |-> "AssertionError",
          message |-> [text |-> "Fixup check failed for {}.{}: {} != {}",
                       name |-> info.name, key |-> key,
                       actual |-> Get(info, key), expected |-> change.check]]
    ELSE [kind |-> "raise", error |-> "KeyError", message |-> [key |-> "check"]]

\* A bug the check could have: the fixup is applied whatever the live value.
FixupCheckPassesAlways(info, key, change) == TRUE

\* not (info.get(key) != change.get("check"))
FixupCheckPasses(info, key, change) == Get(info, key) = Get(change, "check")

\* if "fixup" in change: info[key] = change["fixup"]
ApplyFixup(info, key, change) ==
    IF "fixup" \in DOMAIN change THEN Put(info, key, change.fixup) ELSE info

\* for key, change in fixups.items(): ... from the k-th pair on.  Gives the
\* fixed-up info, or what the first failed check raised.
RECURSIVE ApplyFixups(_, _, _)
ApplyFixups(info, fixups, k) ==
    IF k > Len(fixups)
    THEN [kind |-> "ok", info |-> info]
    ELSE IF ~FixupCheckPasses(info, fixups[k].key, fixups[k].change)
         THEN FixupCheckFailed(info, fixups[k].key, fixups[k].change)
         ELSE ApplyFixups(ApplyFixup(info, fixups[k].key, fixups[k].change), fixups, k + 1)

\* The body of `for info in metadata["packages"]` for one package, on the
\* indexes built so far.
LoadPackage(self, info) ==
    IF info.name \in EXCLUDED_PACKAGES
    THEN self
    ELSE LET fixed == IF info.name \in FIXUP_PACKAGES
                      THEN ApplyFixups(info, PACKAGE_METADATA_FIXUPS(info.name), 1)
                      ELSE [kind |-> "ok", info |-> info]
         IN  IF fixed.kind = "raise" THEN fixed
             ELSE IF fixed.info.id \in DOMAIN self.pkgInfoById
                  THEN [kind |-> "raise", error |-> "AssertionError",
                        message |-> [text |-> "info[\"id\"] not in self.pkgInfoById"]]
             ELSE IF fixed.info.manifest_path \in DOMAIN self.pkgInfoByManifestPath
                  THEN [kind |-> "raise", error |-> "AssertionError",
                        message |-> [text |-> "info[\"manifest_path\"] not in self.pkgInfoByManifestPath"]]
             ELSE [self EXCEPT
                     !.pkgInfoById = Put(@, fixed.info.id, fixed.info),
                     !.pkgInfoByManifestPath = Put(@, fixed.info.manifest_path, fixed.info)]

\* for info in metadata["packages"]: ... from the k-th package on.
RECURSIVE LoadPackages(_, _, _)
LoadPackages(self, packages, k) ==
    IF k > Len(packages) \/ self.kind = "raise"
    THEN self
    ELSE LoadPackages(LoadPackage(self, packages[k]), packages, k + 1)

\* for name, info in EXTRA_PACKAGE_METADATA.items(): ... from the k-th on.
RECURSIVE LoadExtraPackages(_, _)
LoadExtraPackages(self, k) ==
    IF k > Len(EXTRA_PACKAGE_NAMES) \/ self.kind = "raise"
    THEN self
    ELSE IF << EXTRA_PACKAGE_NAMES[k] >> \in DOMAIN self.pkgInfoById
         THEN [kind |-> "raise", error |-> "AssertionError",
               message |-> [text |-> "name not in self.pkgInfoById"]]
         ELSE LoadExtraPackages(
                [self EXCEPT !.pkgInfoById =
                    Put(@, << EXTRA_PACKAGE_NAMES[k] >>,
                        EXTRA_PACKAGE_METADATA(EXTRA_PACKAGE_NAMES[k]))],
                k + 1)

\* for id in metadata["workspace_members"]: ... from the k-th member on.
RECURSIVE LoadWorkspaceMembers(_, _, _)
LoadWorkspaceMembers(self, members, k) ==
    IF k > Len(members) \/ self.kind = "raise"
    THEN self
    ELSE IF members[k] \notin DOMAIN self.pkgInfoById
         THEN [kind |-> "raise", error |-> "KeyError", message |-> [id |-> members[k]]]
         ELSE IF self.pkgInfoById[members[k]].name \in DOMAIN self.workspaceMembersByName
              THEN [kind |-> "raise", error |-> "AssertionError",
                    message |-> [text |-> "name not in self.workspaceMembersByName"]]
              ELSE LoadWorkspaceMembers(
                     [self EXCEPT !.workspaceMembersByName =
                         Put(@, self.pkgInfoById[members[k]].name, members[k])],
                     members, k + 1)

\* The empty function: an empty dict.
EmptyDict == [k \in {} |-> None]

\* WorkspaceMetadata.__init__(metadata): the constructed object, or what the
\* constructor raised.
WorkspaceMetadata(md) ==
    LoadWorkspaceMembers(
        LoadExtraPackages(
            LoadPackages([kind |-> "return",
                          metadata |-> md,
                          pkgInfoById |-> EmptyDict,
                          pkgInfoByManifestPath |-> EmptyDict,
                          workspaceMembersByName |-> EmptyDict],
                         md.packages, 1),
            1),
        md.workspace_members, 1)

\* Most packages in one `cargo metadata` document.
MaxPackages == 2

\* Names of the packages of the document: three with fixups, an excluded one
\* and one the tables do not know.
CargoPackageNames == {"publicsuffix", "miniz_oxide", "windows-link", "cloudabi", "demo"}

\* The k-th package of a document, as cargo reports it.  Its version is its
\* position: cargo's ids and manifest paths are unique.
CargoPackage(k, name, license, license_file) ==
    [name |-> name,
     id |-> << name, k >>,
     manifest_path |-> << "/registry", name, k, "Cargo.toml" >>,
     license |-> license,
     license_file |-> license_file,
     repository |-> << "https://", "github.com/example/repo" >>]

CargoLicenses ==
    { << "MIT", "/", "Apache-2.0" >>,
      << "MIT", " ", "OR", " ", "Zlib", " ", "OR", " ", "Apache-2.0" >> }

CargoLicenseFiles == { None, << "LICENSE", "-MIT" >> }

\* The documents of n packages.
PackageLists(n) ==
    { [k \in 1..n |-> CargoPackage(k, c[k][1], c[k][2], c[k][3])] :
        c \in [1..n -> CargoPackageNames \X CargoLicenses \X CargoLicenseFiles] }

\* workspace_members: no member, or one of the packages.
MemberLists(packages) ==
    { << >> } \cup { << packages[k].id >> : k \in 1..Len(packages) }

Metadatas ==
    UNION { { [packages |-> ps, workspace_members |-> ms, workspace_root |-> "/workspace"] :
                ms \in MemberLists(ps) } :
            ps \in UNION { PackageLists(n) : n \in 0..MaxPackages } }

CatalogInit ==
    /\ metadata \in Metadatas
    /\ catalog = Pending

\* No catalog is constructed.
CatalogIdle ==
    /\ metadata = [packages |-> << >>, workspace_members |-> << >>,
                   workspace_root |-> "/workspace"]
    /\ catalog = [kind |-> "idle"]

\* get_workspace_metadata(): the constructor runs on the document.
ConstructWorkspaceMetadata ==
    /\ catalog = Pending
    /\ catalog' = WorkspaceMetadata(metadata)
    /\ UNCHANGED metadata
    /\ UNCHANGED <<pickVars, locateVars, groupVars, printVars, resolveVars, recordVars>>

(***************************************************************************)
(* License file locator: WorkspaceMetadata._find_license_file.             *)
(*                                                                         *)
(* A file name is a sequence of atoms: a stem, a tag and a suffix, each    *)
(* in the case it has on disk.                                             *)
(***************************************************************************)

\* str.lower() on one atom of a file name.
LowerAtom(a) ==
    CASE a \in {"LICENSE", "License"} -> "license"
      [] a \in {"LICENCE", "Licence"} -> "licence"
      [] a \in {"-APACHE", "-Apache"} -> "-apache"
      [] a = "-MIT" -> "-mit"
      [] a = "-CC0" -> "-cc0"
      [] a = "-ZLIB" -> "-zlib"
      [] a = "COPYING" -> "copying"
      [] a = ".MD" -> ".md"
      [] a = ".TXT" -> ".txt"
      [] OTHER -> a

\* str.lower()
Lower(nm) == [k \in 1..Len(nm) |-> LowerAtom(nm[k])]

\* The keys of COMMON_LICENSE_FILE_NAME_ROOTS.
COMMON_LICENSE_FILE_NAME_KEYS ==
    { << >>, << "Apache-2.0" >>, << "MIT" >>, << "CC0" >>, << "Zlib" >> }

\* COMMON_LICENSE_FILE_NAME_ROOTS[license], a list.
COMMON_LICENSE_FILE_NAME_ROOTS(license) ==
    CASE license = << >> -> << << "license" >>, << "licence" >> >>
      [] license = << "Apache-2.0" >> ->
            << << "license", "-apache" >>, << "licence", "-apache" >> >>
      [] license = << "MIT" >> -> << << "license", "-mit" >>, << "licence", "-mit" >> >>
      [] license = << "CC0" >> -> << << "license", "-cc0" >>, << "licence", "-cc0" >> >>
      [] license = << "Zlib" >> -> << << "license", "-zlib" >>, << "license", "-zlib" >> >>

COMMON_LICENSE_FILE_NAME_SUFFIXES == << << >>, << ".md" >>, << ".txt" >> >>

\* The elements of a list.
Range(seq) == { seq[k] : k \in 1..Len(seq) }

\* COMMON_LICENSE_FILE_NAMES[license], as the module-level loop fills it.
COMMON_LICENSE_FILE_NAMES(license) ==
    { root \o suffix :
        root \in Range(COMMON_LICENSE_FILE_NAME_ROOTS(license))
                   \cup Range(COMMON_LICENSE_FILE_NAME_ROOTS(<< >>)),
        suffix \in Range(COMMON_LICENSE_FILE_NAME_SUFFIXES) }

\* try: COMMON_LICENSE_FILE_NAMES[license]  except KeyError: COMMON_LICENSE_FILE_NAMES[""]
LicenseFileNames(license) ==
    IF license \in COMMON_LICENSE_FILE_NAME_KEYS
    THEN COMMON_LICENSE_FILE_NAMES(license)
    ELSE COMMON_LICENSE_FILE_NAMES(<< >>)

\* A bug the filter could have: comparing the names as they are on disk.
FoundLicenseFilesCaseSensitive(entries, licenseFileNames) ==
    { nm \in entries : nm \in licenseFileNames }

\* [nm for nm in os.listdir(pkgRoot) if nm.lower() in licenseFileNames]
FoundLicenseFiles(entries, licenseFileNames) ==
    { nm \in entries : Lower(nm) \in licenseFileNames }

\* A bug the decision could have: taking a match when there are several.
FoundOneOrMore(found) == Cardinality(found) >= 1

\* len(foundLicenseFiles) == 1
FoundOne(found) == Cardinality(found) = 1

\* WorkspaceMetadata._find_license_file(id, license, pkgInfo), with entries
\* what os.listdir(pkgRoot) gives.
find_license_file(id, license, pkgInfo, entries) ==
    IF Get(pkgInfo, "license_file") # None
    THEN [kind |-> "return", value |-> pkgInfo.license_file]
    ELSE LET found == FoundLicenseFiles(entries, LicenseFileNames(license))
         IN  IF FoundOne(found)
             THEN [kind |-> "return", value |-> CHOOSE nm \in found : TRUE]
             ELSE IF Cardinality(found) > 1
                  THEN [kind |-> "raise", error |-> "RuntimeError",
                        message |-> [text |-> "Multiple ambiguous license files found",
                                     name |-> pkgInfo.name, files |-> found]]
                  ELSE [kind |-> "raise", error |-> "RuntimeError",
                        message |-> [text |-> "Could not find license file",
                                     name |-> pkgInfo.name,
                                     repository |-> pkgInfo.repository]]

\* Most entries in a package directory.
MaxDirEntries == 3

\* The names a package directory may hold.
DirEntryNames ==
    { << "LICENSE", "-APACHE" >>, << "LICENCE", "-APACHE" >>, << "license", "-apache" >>,
      << "LICENSE", "-APACHE", ".md" >>, << "LICENSE", "-MIT" >>, << "LICENSE" >>,
      << "License", ".txt" >>, << "LICENSE", "-ZLIB" >>, << "LICENCE", "-ZLIB" >>,
      << "LICENSE", "-CC0" >>, << "COPYING" >>, << "LICENSE", ".rst" >> }

\* The licenses pick_most_acceptable_license may have chosen.
ChosenLicenses ==
    { << "Apache-2.0" >>, << "MIT" >>, << "Zlib" >>, << "CC0-1.0" >>, << "MPL-2.0" >>,
      EncodingRsLicense }

\* The license_file a package may declare.
DeclaredLicenseFiles ==
    { None, << "COPYING" >>,
      << "https://", "raw.githubusercontent.com/example/repo/master/LICENSE" >> }

LocateInit ==
    /\ locateArgs \in
         { [id |-> << "dep-a", 1 >>, license |-> l,
            pkgInfo |-> [name |-> "dep-a",
                         manifest_path |-> << "/registry", "dep-a", 1, "Cargo.toml" >>,
                         repository |-> << "https://", "github.com/example/repo" >>,
                         license_file |-> f]] :
           l \in ChosenLicenses, f \in DeclaredLicenseFiles }
    /\ listdir \in { d \in SUBSET DirEntryNames : Cardinality(d) <= MaxDirEntries }
    /\ locateResult = Pending

\* The locator is not exercised.
LocateIdle ==
    /\ locateArgs = [id |-> << "dep-a", 1 >>, license |-> << >>, pkgInfo |-> EmptyDict]
    /\ listdir = {}
    /\ locateResult = [kind |-> "idle"]

\* One call of _find_license_file on the arguments and directory drawn by Init.
FindLicenseFile ==
    /\ locateResult = Pending
    /\ locateResult' = find_license_file(locateArgs.id, locateArgs.license,
                                         locateArgs.pkgInfo, listdir)
    /\ UNCHANGED <<locateArgs, listdir>>
    /\ UNCHANGED <<pickVars, catalogVars, groupVars, printVars, resolveVars, recordVars>>

(***************************************************************************)
(* Grouping: make_license_title and group_dependencies_for_printing.       *)
(***************************************************************************)

\* The package names of the model, in the order Python's < puts them.
NamesInOrder ==
    << "NSPR", "NSS", "SwiftKeychainWrapper", "jna", "mit-lib", "mpl-lib", "openssl",
       "protobuf", "ring", "rusqlite", "sibling", "sqlite" >>

NameIndex(name) == CHOOSE k \in 1..Len(NamesInOrder) : NamesInOrder[k] = name

\* name1 < name2 on str
NameLess(name1, name2) == NameIndex(name1) < NameIndex(name2)

\* id1 < id2 on the id strings, which spell the name and then the version;
\* the id of a package managed outside of cargo is its name alone.
IdLess(id1, id2) ==
    \/ NameLess(id1[1], id2[1])
    \/ /\ id1[1] = id2[1]
       /\ \/ Len(id1) < Len(id2)
          \/ Len(id1) = 2 /\ Len(id2) = 2 /\ id1[2] < id2[2]

\* list1 < list2 on lists of names.
RECURSIVE NameListLess(_, _)
NameListLess(list1, list2) ==
    IF list2 = << >> THEN FALSE
    ELSE IF list1 = << >> THEN TRUE
    ELSE IF list1[1] # list2[1] THEN NameLess(list1[1], list2[1])
    ELSE NameListLess(Tail(list1), Tail(list2))

\* The elements of seq put at the positions pos gives them.
Arrange(seq, pos) ==
    [p \in 1..Len(seq) |-> seq[CHOOSE i \in 1..Len(seq) : pos[i] = p]]

\* sorted(seq, key=...) and list.sort(key=...): the stable sort, which keeps
\* elements with equal keys in their order in seq.  less[i][j] tells whether
\* the key of seq[i] is less than the key of seq[j].
StableSort(seq, less) ==
    Arrange(seq, [i \in 1..Len(seq) |->
                    1 + Cardinality({ j \in 1..Len(seq) :
                                        \/ less[j][i]
                                        \/ j < i /\ ~less[i][j] })])

\* sorted(set(names)): the distinct names in ascending order.
SortedNameSet(names) ==
    LET S == Range(names)
        pos(x) == 1 + Cardinality({ y \in S : NameLess(y, x) })
    IN  [p \in 1..Cardinality(S) |-> CHOOSE x \in S : pos(x) = p]

\* ", ".join(names)
RECURSIVE JoinNames(_)
JoinNames(names) ==
    IF names = << >> THEN << >>
    ELSE IF Len(names) = 1 THEN << names[1] >>
    ELSE << names[1], ", " >> \o JoinNames(Tail(names))

\* make_license_title without its two early returns.
TitleWithoutEarlyReturns(license, ds) ==
    LET title == IF license = << "MPL-2.0" >> THEN << "Mozilla Public License 2.0" >>
                 ELSE IF license = << "Apache-2.0" >> THEN << "Apache License 2.0" >>
                 ELSE license \o << " License" >>
    IN  IF ds # << >>
        THEN title \o << ": " >>
               \o JoinNames(SortedNameSet([k \in 1..Len(ds) |-> ds[k].name]))
        ELSE title

\* make_license_title(license, deps); deps = << >> stands for deps=None.
make_license_title(license, ds) ==
    IF license = << "EXT-", "OPENSSL" >> THEN << "OpenSSL License" >>
    ELSE IF license = << "EXT-", "SQLITE" >> THEN << "Optional Notice: SQLite" >>
    ELSE LET title == IF license = << "MPL-2.0" >> THEN << "Mozilla Public License 2.0" >>
                      ELSE IF license = << "Apache-2.0" >> THEN << "Apache License 2.0" >>
                      ELSE license \o << " License" >>
         IN  IF ds # << >>
             THEN title \o << ": " >>
                    \o JoinNames(SortedNameSet([k \in 1..Len(ds) |-> ds[k].name]))
             ELSE title

\* info["license"].startswith("EXT-")
StartsWithExt(license) == license # << >> /\ license[1] = "EXT-"

\* "".join(text.split()): the text with all whitespace removed.
RECURSIVE RemoveWhitespace(_)
RemoveWhitespace(text) ==
    IF text = << >> THEN << >>
    ELSE IF IsSpace(text[1]) THEN RemoveWhitespace(Tail(text))
    ELSE << text[1] >> \o RemoveWhitespace(Tail(text))

\* hashlib.sha256(...).hexdigest(): a digest stands for the one text that
\* hashes to it (SHA-256 is taken to be free of collisions).
Sha256(text) == [sha256 |-> text]

\* The digest part of a key that has none.
NoDigest == [sha256 |-> << "<none>" >>]

\* A bug the key could have: hashing the text with its whitespace.
HashedKeyOfRawText(info) ==
    [license |-> info.license, digest |-> Sha256(info.license_text)]

\* info["license"] + ":" + hashlib.sha256(text.encode("utf8")).hexdigest()
HashedKey(info) ==
    [license |-> info.license, digest |-> Sha256(RemoveWhitespace(info.license_text))]

\* A bug the test could have: forgetting the "EXT-" licenses.
HasSharedTextNoExt(license) ==
    license \in { << "MPL-2.0" >>, << "Apache-2.0" >> }

\* info["license"] in ("MPL-2.0", "Apache-2.0") or info["license"].startswith("EXT-")
HasSharedText(license) ==
    license \in { << "MPL-2.0" >>, << "Apache-2.0" >> } \/ StartsWithExt(license)

\* licenseTextHash of one info: the license alone, or the license, ":" and the
\* digest, held as a pair.
LicenseTextHash(info) ==
    IF HasSharedText(info.license)
    THEN [license |-> info.license, digest |-> NoDigest]
    ELSE HashedKey(info)

\* A key goes after the keys inserted before it, unless it is one of them.
InsertKey(keys, key) == IF key \in Range(keys) THEN keys ELSE Append(keys, key)

\* The keys of depsByLicenseTextHash in the order of their first insertion.
RECURSIVE KeysInOrder(_)
KeysInOrder(ds) ==
    IF ds = << >> THEN << >>
    ELSE InsertKey(KeysInOrder(SubSeq(ds, 1, Len(ds) - 1)), LicenseTextHash(ds[Len(ds)]))

\* depsByLicenseTextHash[key] = [info]: an info takes the place of the infos
\* of its key before it.
DepsOfKeyLastOnly(ds, key) ==
    LET at == { k \in 1..Len(ds) : LicenseTextHash(ds[k]) = key }
    IN  IF at = {} THEN << >>
        ELSE << ds[CHOOSE k \in at : \A other \in at : other <= k] >>

\* depsByLicenseTextHash[key]: the infos of that key, in the order given.
RECURSIVE DepsOfKey(_, _)
DepsOfKey(ds, key) ==
    IF ds = << >> THEN << >>
    ELSE IF LicenseTextHash(ds[1]) = key
         THEN << ds[1] >> \o DepsOfKey(Tail(ds), key)
         ELSE DepsOfKey(Tail(ds), key)

\* key=lambda i: (i["name"], i["id"])
DepLess(i1, i2) ==
    \/ NameLess(i1.name, i2.name)
    \/ i1.name = i2.name /\ IdLess(i1.id, i2.id)

\* substring in text, for a substring that is one atom.
Contains(text, atom) == \E k \in 1..Len(text) : text[k] = atom

\* The test of the canonical text without its "NSS" half.
CanonicalApacheAnyPlaceholder(sorted) ==
    { k \in 1..Len(sorted) : Contains(sorted[k].license_text, "[yyyy]") }

\* The infos of an Apache-2.0 group whose text is the canonical one.
CanonicalApache(sorted) ==
    { k \in 1..Len(sorted) :
        Contains(sorted[k].license_text, "[yyyy]") /\ ~Contains(sorted[k].license_text, "NSS") }

\* The group of a key whose infos are sorted, or the RuntimeError of an
\* Apache-2.0 group with no canonical text.
GroupOfSorted(key, sorted) ==
    IF key = [license |-> << "Apache-2.0" >>, digest |-> NoDigest]
       /\ CanonicalApache(sorted) = {}
    THEN [kind |-> "raise", error |-> "RuntimeError",
          message |-> [text |-> "Could not find appropriate apache license text"]]
    ELSE [kind |-> "group",
          title |-> IF sorted[1].license \in { << "MPL-2.0" >>, << "Apache-2.0" >> }
                    THEN make_license_title(sorted[1].license, << >>)
                    ELSE make_license_title(sorted[1].license, sorted),
          dependencies |-> sorted,
          license |-> sorted[1].license,
          license_text_hash |-> key,
          license_text |->
              IF key # [license |-> << "Apache-2.0" >>, digest |-> NoDigest]
              THEN sorted[1].license_text
              ELSE sorted[Least(CanonicalApache(sorted))].license_text,
          license_url |-> Get(sorted[1], "license_url")]

\* The body of `for licenseTextHash, unsorted_deps in ...items()` for one key.
MakeGroup(key, unsorted_deps) ==
    GroupOfSorted(key,
        StableSort(unsorted_deps,
            [i \in 1..Len(unsorted_deps) |-> [j \in 1..Len(unsorted_deps) |->
                DepLess(unsorted_deps[i], unsorted_deps[j])]]))

\* sort_key(group)[0]: the 0-based position of the group's license in the
\* preference list, and the position after the last for a license not in it.
SortIndex(group) ==
    IF \E i \in 1..Len(LICENSES_IN_PREFERENCE_ORDER) :
          LICENSES_IN_PREFERENCE_ORDER[i] = group.license
    THEN (CHOOSE i \in 1..Len(LICENSES_IN_PREFERENCE_ORDER) :
            LICENSES_IN_PREFERENCE_ORDER[i] = group.license) - 1
    ELSE (Len(LICENSES_IN_PREFERENCE_ORDER) - 1) + 1

\* sort_key(group)[1]: [d["name"] for d in group["dependencies"]]
SortNames(group) == [k \in 1..Len(group.dependencies) |-> group.dependencies[k].name]

\* A bug the sort could have: ordering the groups by their names alone.
GroupLessByNamesOnly(g1, g2) == NameListLess(SortNames(g1), SortNames(g2))

\* sort_key(g1) < sort_key(g2)
GroupLess(g1, g2) ==
    \/ SortIndex(g1) < SortIndex(g2)
    \/ SortIndex(g1) = SortIndex(g2) /\ NameListLess(SortNames(g1), SortNames(g2))

\* groups.sort(key=sort_key) on the groups made, or the RuntimeError of the
\* first group that raised.
SortGroups(made) ==
    IF \E k \in 1..Len(made) : made[k].kind = "raise"
    THEN made[Least({ k \in 1..Len(made) : made[k].kind = "raise" })]
    ELSE [kind |-> "return",
          value |-> StableSort(made,
                        [i \in 1..Len(made) |-> [j \in 1..Len(made) |->
                            GroupLess(made[i], made[j])]])]

\* The groups of the keys, in the order of the keys.
GroupsOfKeys(ds, keys) ==
    SortGroups([k \in 1..Len(keys) |-> MakeGroup(keys[k], DepsOfKey(ds, keys[k]))])

\* group_dependencies_for_printing(deps): the sorted list of groups, or the
\* RuntimeError of the first group that raised.
group_dependencies_for_printing(ds) == GroupsOfKeys(ds, KeysInOrder(ds))

\* Most license infos in one call.
MaxDeps == 2

\* The ids of the packages the infos are about: two versions of one package
\* and another package.
DepIds == { << "mit-lib", 1 >>, << "mit-lib", 2 >>, << "mpl-lib", 1 >> }

\* A license text, the same text laid out differently, another holder's text
\* with the placeholder of the Apache boilerplate, and a text of NSS.
TextA == << "Copyright", " ", "A" >>
TextALaidOut == << "Copyright", "\n", "A", "\n" >>
TextB == << "Copyright", " ", "[yyyy]", " ", "B" >>
TextNSS == << "Copyright", " ", "[yyyy]", " ", "NSS" >>

\* The (license, license text) pairs of the infos.
LicensesWithText ==
    { << << "MPL-2.0" >>, TextA >>, << << "MPL-2.0" >>, TextB >>,
      << << "Apache-2.0" >>, TextA >>, << << "Apache-2.0" >>, TextB >>,
      << << "Apache-2.0" >>, TextNSS >>,
      << << "MIT" >>, TextA >>, << << "MIT" >>, TextALaidOut >>, << << "MIT" >>, TextB >>,
      << << "EXT-", "SQLITE" >>, TextA >>, << << "EXT-", "SQLITE" >>, TextB >>,
      << << "EXT-", "OPENSSL" >>, TextA >>,
      << EncodingRsLicense, TextA >> }

\* What get_license_info returns for a package with that name and version.
LicenseInfo(name, version, license, text) ==
    [name |-> name,
     id |-> << name, version >>,
     repository |-> << "https://", "github.com/example/", name >>,
     license |-> license,
     license_file |-> << "LICENSE" >>,
     license_text |-> text,
     license_url |-> << "https://", "github.com/example/", name, "/blob/main/LICENSE" >>]

LicenseInfos ==
    { LicenseInfo(id[1], id[2], lt[1], lt[2]) : id \in DepIds, lt \in LicensesWithText }

\* The lists of up to n infos of distinct packages, in every order.
DepLists(n) ==
    UNION { { ds \in [1..k -> LicenseInfos] :
                \A i, j \in 1..k : i # j => ds[i].id # ds[j].id } : k \in 0..n }

GroupInit ==
    /\ deps \in DepLists(MaxDeps)
    /\ groups = Pending

\* Nothing is grouped.
GroupIdle ==
    /\ deps = << >>
    /\ groups = [kind |-> "idle"]

\* One call of group_dependencies_for_printing on the infos drawn by Init.
GroupDependenciesForPrinting ==
    /\ groups = Pending
    /\ groups' = group_dependencies_for_printing(deps)
    /\ UNCHANGED deps
    /\ UNCHANGED <<pickVars, catalogVars, locateVars, printVars, resolveVars, recordVars>>

(***************************************************************************)
(* The markdown renderer: print_dependency_summary_markdown.               *)
(***************************************************************************)

\* The delimiter of a markdown code block: the atom that is three backticks,
\* spelt out because a string of the model cannot hold a backtick.
Fence == "<three backticks>"

\* The horizontal rule.
Rule == << "-------------" >>

\* The strings of the six pf calls that come before the grouping.
MarkdownHeader ==
    << << "# Licenses for Third-Party Dependencies" >>,
       << >>,
       << "Binary distributions of this software incorporate code from a number of third-party dependencies." >>,
       << "These dependencies are available under a variety of free and open source licenses," >>,
       << "the details of which are reproduced below." >>,
       << >> >>

\* One atom of a title after .lower().replace(" ", "-").replace(".", "")
\* .replace(",", "").replace(":", "")
AnchorAtom(a) ==
    CASE a = "Mozilla Public License 2.0" -> "mozilla-public-license-20"
      [] a = "Apache License 2.0" -> "apache-license-20"
      [] a = "OpenSSL License" -> "openssl-license"
      [] a = "Optional Notice: SQLite" -> "optional-notice-sqlite"
      [] a = " License" -> "-license"
      [] a = ": " -> "-"
      [] a = ", " -> "-"
      [] a = " " -> "-"
      [] a = "MIT" -> "mit"
      [] a = "MPL-2.0" -> "mpl-20"
      [] a = "Apache-2.0" -> "apache-20"
      [] a = "BSD-3-Clause" -> "bsd-3-clause"
      [] a = "OR" -> "or"
      [] a = "AND" -> "and"
      [] OTHER -> a

\* The anchor of a header.
Anchor(header) == [k \in 1..Len(header) |-> AnchorAtom(header[k])]

\* "* [{}](#{})".format(header, anchor)
TocEntry(header) == << "* [" >> \o header \o << "](#" >> \o Anchor(header) \o << ")" >>

\* "[{}]({})".format(info["name"], info["repository"])
PkgLink(info) == << "[", info.name, "](" >> \o info.repository \o << ")" >>

\* link1 < link2 on the link strings; the names of the model differ before
\* either ends, so the names decide.
PkgLinkLess(link1, link2) == NameLess(link1[2], link2[2])

\* sorted(set(pkgs))
SortedPkgs(dependencies) ==
    LET S == { PkgLink(dependencies[k]) : k \in 1..Len(dependencies) }
        pos(x) == 1 + Cardinality({ y \in S : PkgLinkLess(y, x) })
    IN  [p \in 1..Cardinality(S) |-> CHOOSE x \in S : pos(x) = p]

\* ",\n".join(pkgs)
RECURSIVE JoinPkgs(_)
JoinPkgs(pkgs) ==
    IF pkgs = << >> THEN << >>
    ELSE IF Len(pkgs) = 1 THEN pkgs[1]
    ELSE pkgs[1] \o << ",\n" >> \o JoinPkgs(Tail(pkgs))

\* What one pass of the details loop prints up to the opening fence.
SectionOpening(section) ==
    << << "## " >> \o section.title,
       << >>,
       << "The following text applies to code linked from these dependencies:\n" >>
          \o JoinPkgs(SortedPkgs(section.dependencies)),
       << >>,
       << Fence >> >>

\* What it prints after the assertion.
SectionClosing(section) == << section.license_text, << Fence >>, Rule >>

\* A bug the renderer could have: printing the text unchecked.
FenceAssertionSkipped(text) == TRUE

\* assert <three backticks> not in section["license_text"]
FenceAssertionHolds(text) == ~Contains(text, Fence)

\* Most license infos in one render.
MaxPrintDeps == 2

\* A license text with a code block in it.
TextFenced == << "Copyright", "\n", Fence, "A", Fence >>

\* The (license, license text) pairs of the infos to render.
PrintLicensesWithText ==
    { << << "MIT" >>, TextA >>, << << "MIT" >>, TextFenced >>,
      << << "MPL-2.0" >>, TextFenced >>,
      << << "Apache-2.0" >>, TextB >>, << << "Apache-2.0" >>, TextNSS >>,
      << EncodingRsLicense, TextA >> }

PrintLicenseInfos ==
    { LicenseInfo(id[1], id[2], lt[1], lt[2]) : id \in DepIds, lt \in PrintLicensesWithText }

\* The lists of up to n infos of distinct packages, in every order.
PrintDepLists(n) ==
    UNION { { ds \in [1..k -> PrintLicenseInfos] :
                \A i, j \in 1..k : i # j => ds[i].id # ds[j].id } : k \in 0..n }

PrintInit ==
    /\ printDeps \in PrintDepLists(MaxPrintDeps)
    /\ file = << >>
    /\ sections = << >>
    /\ sectionNo = 0
    /\ printPc = "start"
    /\ printResult = Pending

\* Nothing is rendered.
PrintIdle ==
    /\ printDeps = << >>
    /\ file = << >>
    /\ sections = << >>
    /\ sectionNo = 0
    /\ printPc = "idle"
    /\ printResult = [kind |-> "idle"]

\* The header and the call of group_dependencies_for_printing, whose
\* RuntimeError leaves the renderer.
PrintHeader ==
    /\ printPc = "start"
    /\ file' = file \o MarkdownHeader
    /\ LET r == group_dependencies_for_printing(printDeps)
       IN  IF r.kind = "raise"
           THEN /\ printResult' = r
                /\ printPc' = "raised"
                /\ UNCHANGED <<sections, sectionNo>>
           ELSE /\ sections' = r.value
                /\ sectionNo' = 1
                /\ printPc' = "toc"
                /\ UNCHANGED printResult
    /\ UNCHANGED printDeps
    /\ UNCHANGED <<pickVars, catalogVars, locateVars, groupVars, resolveVars, recordVars>>

\* One pass of the table of contents loop.
PrintTocEntry ==
    /\ printPc = "toc"
    /\ sectionNo <= Len(sections)
    /\ file' = Append(file, TocEntry(sections[sectionNo].title))
    /\ sectionNo' = sectionNo + 1
    /\ UNCHANGED <<printDeps, sections, printPc, printResult>>
    /\ UNCHANGED <<pickVars, catalogVars, locateVars, groupVars, resolveVars, recordVars>>

\* The rule after the table of contents; with no sections the function returns.
PrintRule ==
    /\ printPc = "toc"
    /\ sectionNo > Len(sections)
    /\ file' = Append(file, Rule)
    /\ sectionNo' = 1
    /\ IF sections = << >>
       THEN /\ printPc' = "done"
            /\ printResult' = [kind |-> "return", value |-> None]
       ELSE /\ printPc' = "details"
            /\ UNCHANGED printResult
    /\ UNCHANGED <<printDeps, sections>>
    /\ UNCHANGED <<pickVars, catalogVars, locateVars, groupVars, resolveVars, recordVars>>

\* One pass of the details loop: the assertion follows the opening fence; after
\* the last pass the function returns.
PrintSection ==
    /\ printPc = "details"
    /\ sectionNo <= Len(sections)
    /\ IF FenceAssertionHolds(sections[sectionNo].license_text)
       THEN /\ file' = file \o SectionOpening(sections[sectionNo])
                            \o SectionClosing(sections[sectionNo])
            /\ IF sectionNo = Len(sections)
               THEN /\ printPc' = "done"
                    /\ printResult' = [kind |-> "return", value |-> None]
                    /\ UNCHANGED sectionNo
               ELSE /\ sectionNo' = sectionNo + 1
                    /\ UNCHANGED <<printPc, printResult>>
       ELSE /\ file' = file \o SectionOpening(sections[sectionNo])
            /\ printPc' = "raised"
            /\ printResult' = [kind |-> "raise", error |-> "AssertionError",
                               message |-> [text |-> ""]]
            /\ UNCHANGED sectionNo
    /\ UNCHANGED <<printDeps, sections>>
    /\ UNCHANGED <<pickVars, catalogVars, locateVars, groupVars, resolveVars, recordVars>>

(***************************************************************************)
(* The pom renderer: print_dependency_summary_pom(deps, file).  It writes  *)
(* to the file of the markdown renderer and keeps its place in the same    *)
(* variables; its positions are "pom" and "licenses".                      *)
(***************************************************************************)

\* What is printed before the call of group_dependencies_for_printing.
PomOpening ==
    << << "<licenses>" >>,
       << "<!--" >>,
       << "Binary distributions of this software incorporate code from a number of third-party dependencies." >>,
       << "These dependencies are available under a variety of free and open source licenses," >>,
       << "the details of which are reproduced below." >>,
       << "-->" >> >>

\* saxutils.escape(data), for data whose atoms hold "&", "<" and ">" only as
\* atoms of their own.
Escape(data) ==
    [k \in 1..Len(data) |->
        CASE data[k] = "&" -> "&amp;"
          [] data[k] = "<" -> "&lt;"
          [] data[k] = ">" -> "&gt;"
          [] OTHER -> data[k]]

\* set(map(lambda d: (d["name"], d["license"], d["license_url"]), dependencies))
PomTriples(dependencies) ==
    { << dependencies[k].name, dependencies[k].license, dependencies[k].license_url >> :
        k \in 1..Len(dependencies) }

\* triple1 < triple2 on the tuples; the triples of one section have one
\* license, and the URLs of the model differ only where the names do, so the
\* names decide.
PomTripleLess(triple1, triple2) == NameLess(triple1[1], triple2[1])

\* sorted(set(...)) of the triples placed, from the least of those left on.
RECURSIVE SortedTriples(_)
SortedTriples(triples) ==
    IF triples = {} THEN << >>
    ELSE LET least == CHOOSE t \in triples : \A u \in triples : ~PomTripleLess(u, t)
         IN  << least >> \o SortedTriples(triples \ { least })

\* What one pass of `for name, license, license_url in deps` prints.
PomEntry(triple) ==
    << << "  <license>" >>,
       << "    <name>" >>
          \o Escape(make_license_title(triple[2], << [name |-> triple[1]] >>))
          \o << "</name>" >>,
       << "    <url>" >> \o Escape(triple[3]) \o << "</url>" >>,
       << "  </license>" >> >>

\* What the passes over the triples of a section print.
RECURSIVE PomEntries(_)
PomEntries(triples) ==
    IF triples = << >> THEN << >>
    ELSE PomEntry(triples[1]) \o PomEntries(Tail(triples))

\* The infos to render: those of the markdown renderer.
PomInit ==
    /\ printDeps \in PrintDepLists(MaxPrintDeps)
    /\ file = << >>
    /\ sections = << >>
    /\ sectionNo = 0
    /\ printPc = "pom"
    /\ printResult = Pending

\* The opening lines and the call of group_dependencies_for_printing, whose
\* RuntimeError leaves the renderer.
PomOpen ==
    /\ printPc = "pom"
    /\ file' = file \o PomOpening
    /\ LET r == group_dependencies_for_printing(printDeps)
       IN  IF r.kind = "raise"
           THEN /\ printResult' = r
                /\ printPc' = "raised"
                /\ UNCHANGED <<sections, sectionNo>>
           ELSE /\ sections' = r.value
                /\ sectionNo' = 1
                /\ printPc' = "licenses"
                /\ UNCHANGED printResult
    /\ UNCHANGED printDeps
    /\ UNCHANGED <<pickVars, catalogVars, locateVars, groupVars, resolveVars, recordVars>>

\* One pass of `for section in sections`.
PomSection ==
    /\ printPc = "licenses"
    /\ sectionNo <= Len(sections)
    /\ file' = file \o PomEntries(SortedTriples(PomTriples(sections[sectionNo].dependencies)))
    /\ sectionNo' = sectionNo + 1
    /\ UNCHANGED <<printDeps, sections, printPc, printResult>>
    /\ UNCHANGED <<pickVars, catalogVars, locateVars, groupVars, resolveVars, recordVars>>

\* The closing line, after which the function returns.
PomClose ==
    /\ printPc = "licenses"
    /\ sectionNo > Len(sections)
    /\ file' = Append(file, << "</licenses>" >>)
    /\ printPc' = "done"
    /\ printResult' = [kind |-> "return", value |-> None]
    /\ UNCHANGED <<printDeps, sections, sectionNo>>
    /\ UNCHANGED <<pickVars, catalogVars, locateVars, groupVars, resolveVars, recordVars>>

(***************************************************************************)
(* License records: _fetch_license_text, _find_license_url and             *)
(* get_license_info.                                                       *)
(*                                                                         *)
(* A URL is a sequence of atoms: the scheme with its "://", the host, and  *)
(* then "/" and path segments; a path on disk is "/" and segments.  The    *)
(* environment env holds the disk and the web: env.listdir[dir] are the    *)
(* entries of a directory, env.files[path] the text of a file, and         *)
(* env.web[url] the response to a GET, 404 for a URL it does not hold.     *)
(***************************************************************************)

\* s.startswith(prefix), for a prefix that ends where an atom of s ends.
StartsWith(s, prefix) ==
    Len(s) >= Len(prefix) /\ SubSeq(s, 1, Len(prefix)) = prefix

\* s.endswith(suffix), for a suffix that starts where an atom of s starts.
EndsWith(s, suffix) ==
    Len(s) >= Len(suffix) /\ SubSeq(s, Len(s) - Len(suffix) + 1, Len(s)) = suffix

\* s.replace(old, new) for an old that is one atom.
ReplaceAtom(s, old, new) == [k \in 1..Len(s) |-> IF s[k] = old THEN new ELSE s[k]]

\* urlparse(ref).scheme: the scheme of a reference, "" for a plain file name.
UrlScheme(ref) ==
    IF ref = << >> THEN ""
    ELSE CASE ref[1] = "https://" -> "https"
           [] ref[1] = "http://" -> "http"
           [] OTHER -> ""

\* os.path.dirname(path): the path without its last "/" and segment.
RECURSIVE Dirname(_)
Dirname(path) ==
    IF path = << >> THEN << >>
    ELSE IF path[Len(path)] = "/"
         THEN IF Len(path) = 1 THEN path ELSE SubSeq(path, 1, Len(path) - 1)
         ELSE Dirname(SubSeq(path, 1, Len(path) - 1))

\* os.path.join(dir, name)
PathJoin(dir, name) ==
    IF name # << >> /\ name[1] = "/" THEN name
    ELSE IF dir = << >> \/ dir[Len(dir)] = "/" THEN dir \o name
    ELSE dir \o << "/" >> \o name

\* requests.get(url)
HttpGet(env, url) ==
    IF url \in DOMAIN env.web THEN env.web[url]
    ELSE [status_code |-> 404, content |-> << "Not Found" >>]

\* os.listdir(dir); a directory the disk does not hold is a FileNotFoundError,
\* which no run of the model reaches.
ListDir(env, dir) == IF dir \in DOMAIN env.listdir THEN env.listdir[dir] ELSE {}

\* WorkspaceMetadata._fetch_license_text(id, licenseFile, pkgInfo)
fetch_license_text(env, id, licenseFile, pkgInfo) ==
    IF "license_text" \in DOMAIN pkgInfo
    THEN [kind |-> "return", value |-> pkgInfo.license_text]
    ELSE IF StartsWith(licenseFile, << "https://" >>)
         THEN LET r == HttpGet(env, licenseFile)
              IN  IF r.status_code >= 400
                  THEN [kind |-> "raise", error |-> "HTTPError",
                        message |-> [url |-> licenseFile, status_code |-> r.status_code]]
                  ELSE [kind |-> "return", value |-> r.content]
         ELSE LET path == PathJoin(Dirname(pkgInfo.manifest_path), licenseFile)
              IN  IF path \in DOMAIN env.files
                  THEN [kind |-> "return", value |-> env.files[path]]
                  ELSE [kind |-> "raise", error |-> "FileNotFoundError",
                        message |-> [path |-> path]]

\* The suffixes stripped from a GitHub repository URL, in the order tried.
StripSuffixes(name) ==
    << << ".git" >>,
       << "/", "tree", "/", "main", "/", name >>,
       << "/", "tree", "/", "master", "/", name >> >>

\* for strip_suffix in [...]: if repo.endswith(strip_suffix): repo = repo[:-len]
RECURSIVE StripRepo(_, _, _)
StripRepo(repo, suffixes, k) ==
    IF k > Len(suffixes) THEN repo
    ELSE IF EndsWith(repo, suffixes[k])
         THEN StripRepo(SubSeq(repo, 1, Len(repo) - Len(suffixes[k])), suffixes, k + 1)
         ELSE StripRepo(repo, suffixes, k + 1)

\* The locations tried for the license file, in the order tried.
ProbePaths(name) ==
    << << "/", "main", "/" >>,
       << "/", "master", "/" >>,
       << "/", "main", "/", name, "/" >>,
       << "/", "master", "/", name, "/" >> >>

\* The candidate URLs of the probing loop, in the order tried.
ProbeUrls(repo, name, licenseFile) ==
    [k \in 1..Len(ProbePaths(name)) |->
        ReplaceAtom(repo, "github.com", "raw.githubusercontent.com")
            \o ProbePaths(name)[k] \o licenseFile]

\* The positions of url at which the pattern
\* raw.githubusercontent.com/([^/]+)/([^/]+)/ matches: the host, "/", a run
\* of atoms other than "/", "/", another such run, "/".
RawMatchEnd(url, i) ==
    LET NextSlash(from) ==
            IF \E j \in from..Len(url) : url[j] = "/"
            THEN Least({ j \in from..Len(url) : url[j] = "/" })
            ELSE 0
        s1 == IF i + 1 <= Len(url) /\ url[i] = "raw.githubusercontent.com" /\ url[i + 1] = "/"
              THEN NextSlash(i + 2) ELSE 0
        s2 == IF s1 > i + 2 THEN NextSlash(s1 + 1) ELSE 0
    IN  IF s2 > s1 + 1 /\ s1 > 0 THEN s2 ELSE 0

\* re.sub(r"raw.githubusercontent.com/([^/]+)/([^/]+)/", r"github.com/\1/\2/blob/", url)
RECURSIVE RawToBlob(_, _)
RawToBlob(url, i) ==
    IF i > Len(url) THEN << >>
    ELSE IF RawMatchEnd(url, i) > 0
         THEN << "github.com" >> \o SubSeq(url, i + 1, RawMatchEnd(url, i))
                \o << "blob", "/" >> \o RawToBlob(url, RawMatchEnd(url, i) + 1)
         ELSE << url[i] >> \o RawToBlob(url, i + 1)

\* The message of the RuntimeError of _find_license_url.
NoLicenseUrl(chosenLicense, licenseFile, pkgInfo, repo) ==
    [kind |-> "raise", error |-> "RuntimeError",
     message |-> [text |-> "Could not infer license URL",
                  name |-> pkgInfo.name, repository |-> repo,
                  license |-> chosenLicense, licenseFile |-> licenseFile]]

\* The URL as it was probed, with no rewriting.
UrlAsProbed(licenseUrl) == licenseUrl

\* if licenseUrl.startswith("https://raw.githubusercontent.com/"): re.sub(...)
HumanFriendlyUrl(licenseUrl) ==
    IF StartsWith(licenseUrl, << "https://", "raw.githubusercontent.com", "/" >>)
    THEN RawToBlob(licenseUrl, 1)
    ELSE licenseUrl

\* WorkspaceMetadata._find_license_url(id, chosenLicense, licenseFile, pkgInfo)
find_license_url(env, id, chosenLicense, licenseFile, pkgInfo) ==
    IF Get(pkgInfo, "license_url") # None
    THEN [kind |-> "return", value |-> pkgInfo.license_url]
    ELSE IF UrlScheme(licenseFile) # ""
    THEN [kind |-> "return", value |-> HumanFriendlyUrl(licenseFile)]
    ELSE LET repo0 == pkgInfo.repository
             repo1 == IF StartsWith(repo0, << "http://", "github.com", "/" >>)
                      THEN ReplaceAtom(repo0, "http://", "https://")
                      ELSE repo0
             repo2 == IF StartsWith(repo1, << "https://", "github.com", "/" >>)
                      THEN StripRepo(repo1, StripSuffixes(pkgInfo.name), 1)
                      ELSE repo1
             urls == ProbeUrls(repo2, pkgInfo.name, licenseFile)
             live == { k \in 1..Len(urls) : HttpGet(env, urls[k]).status_code = 200 }
         IN  IF repo0 = None \/ repo0 = << >>
                \/ ~StartsWith(repo1, << "https://", "github.com", "/" >>)
             THEN NoLicenseUrl(chosenLicense, licenseFile, pkgInfo, repo1)
             ELSE IF live = {}
             THEN NoLicenseUrl(chosenLicense, licenseFile, pkgInfo, repo2)
             ELSE [kind |-> "return", value |-> HumanFriendlyUrl(urls[Least(live)])]

\* WorkspaceMetadata.get_license_info(id) on the catalog self: the record, or
\* what the first step that failed raised.
get_license_info(self, env, id) ==
    LET pkgInfo == self.pkgInfoById[id]
        chosenLicense == pick_most_acceptable_license(id, pkgInfo.license)
        licenseFile == find_license_file(id, chosenLicense.value, pkgInfo,
                                         ListDir(env, Dirname(Get(pkgInfo, "manifest_path"))))
        licenseText == fetch_license_text(env, id, licenseFile.value, pkgInfo)
        licenseUrl == find_license_url(env, id, chosenLicense.value, licenseFile.value, pkgInfo)
    IN  IF chosenLicense.kind = "raise" THEN chosenLicense
        ELSE IF licenseFile.kind = "raise" THEN licenseFile
        ELSE IF pkgInfo.repository = None
             THEN [kind |-> "raise", error |-> "AssertionError",
                   message |-> [text |-> "pkgInfo[\"repository\"] is not None"]]
        ELSE IF licenseText.kind = "raise" THEN licenseText
        ELSE IF licenseUrl.kind = "raise" THEN licenseUrl
        ELSE [kind |-> "return",
              value |-> [name |-> pkgInfo.name,
                         id |-> IF "id" \in DOMAIN pkgInfo THEN pkgInfo.id ELSE << pkgInfo.name >>,
                         repository |-> pkgInfo.repository,
                         license |-> chosenLicense.value,
                         license_file |-> licenseFile.value,
                         license_text |-> licenseText.value,
                         license_url |-> licenseUrl.value]]

(***************************************************************************)
(* One license record, step by step: get_license_info with the requests it *)
(* makes of the disk and of the web, in the order it makes them.           *)
(*                                                                         *)
(* A request is [op, at]: "listdir" of a directory, "open" of a file, or   *)
(* "get" of a URL.                                                         *)
(***************************************************************************)

\* _fetch_license_text with no look at pkgInfo for a text of its own.
FetchRequestsIgnoringEmbeddedText(licenseFile, pkgInfo) ==
    IF StartsWith(licenseFile, << "https://" >>)
    THEN << [op |-> "get", at |-> licenseFile] >>
    ELSE << [op |-> "open", at |-> PathJoin(Dirname(pkgInfo.manifest_path), licenseFile)] >>

\* The requests of _fetch_license_text: none for a text pkgInfo holds, a GET
\* of a reference that starts with https://, the opening of the file of that
\* name in the package directory for any other.
FetchRequests(licenseFile, pkgInfo) ==
    IF "license_text" \in DOMAIN pkgInfo THEN << >>
    ELSE IF StartsWith(licenseFile, << "https://" >>)
    THEN << [op |-> "get", at |-> licenseFile] >>
    ELSE << [op |-> "open", at |-> PathJoin(Dirname(pkgInfo.manifest_path), licenseFile)] >>

\* The probing loop with no break: every location is tried.
ProbesWithoutBreak(env, licenseFile, pkgInfo, repo) ==
    LET urls == ProbeUrls(StripRepo(repo, StripSuffixes(pkgInfo.name), 1),
                          pkgInfo.name, licenseFile)
    IN  [k \in 1..Len(urls) |-> [op |-> "get", at |-> urls[k]]]

\* The requests of `for path in [...]` for a repository on GitHub: a GET of
\* each location in turn, up to the first that answers 200.
Probes(env, licenseFile, pkgInfo, repo) ==
    LET urls == ProbeUrls(StripRepo(repo, StripSuffixes(pkgInfo.name), 1),
                          pkgInfo.name, licenseFile)
        live == { k \in 1..Len(urls) : HttpGet(env, urls[k]).status_code = 200 }
        last == IF live = {} THEN Len(urls) ELSE Least(live)
    IN  [k \in 1..last |-> [op |-> "get", at |-> urls[k]]]

\* _find_license_url that probes whatever pkgInfo and the reference say.
ProbeRequestsWhateverIsDeclared(env, licenseFile, pkgInfo) ==
    LET repo == IF StartsWith(pkgInfo.repository, << "http://", "github.com", "/" >>)
                THEN ReplaceAtom(pkgInfo.repository, "http://", "https://")
                ELSE pkgInfo.repository
    IN  IF StartsWith(repo, << "https://", "github.com", "/" >>)
        THEN Probes(env, licenseFile, pkgInfo, repo)
        ELSE << >>

\* The requests of _find_license_url: none for a license_url of pkgInfo, none
\* for a reference with a scheme, none for a repository that is not on
\* GitHub, the probes for any other.
ProbeRequests(env, licenseFile, pkgInfo) ==
    LET repo == IF StartsWith(pkgInfo.repository, << "http://", "github.com", "/" >>)
                THEN ReplaceAtom(pkgInfo.repository, "http://", "https://")
                ELSE pkgInfo.repository
    IN  IF Get(pkgInfo, "license_url") # None THEN << >>
        ELSE IF UrlScheme(licenseFile) # "" THEN << >>
        ELSE IF StartsWith(repo, << "https://", "github.com", "/" >>)
        THEN Probes(env, licenseFile, pkgInfo, repo)
        ELSE << >>

\* A package of the registry and the world around it: its license expression
\* is one pick_most_acceptable_license takes or not; its license file is not
\* declared, declared by name, or declared as a URL (https on the raw host,
\* https elsewhere, http); it may hold a text and a URL of its own; its
\* repository is on GitHub or not, or missing; its directory holds no license
\* file, one, or two; and any of the locations probed and of the URLs
\* declared may be live.
RecordInit ==
    LET Dir == << "/", "registry", "/", "mit-lib" >>
        GitHub == << "https://", "github.com", "/", "example", "/", "mit-lib" >>
        RawFile == << "https://", "raw.githubusercontent.com", "/", "example", "/", "mit-lib",
                      "/", "main", "/", "LICENSE", "-MIT" >>
        Elsewhere == << "https://", "example.com", "/", "LICENSE" >>
        Plain == << "http://", "example.com", "/", "LICENSE" >>
        Ok == [status_code |-> 200, content |-> TextA]
        Base(license, license_file, repository) ==
            [name |-> "mit-lib", id |-> << "mit-lib", 1 >>,
             manifest_path |-> Dir \o << "/", "Cargo.toml" >>,
             license |-> license, license_file |-> license_file, repository |-> repository]
        Bases == { Base(l, f, r) :
                     l \in { << "MIT" >>, << "Proprietary" >> },
                     f \in { None, << "LICENSE", "-MIT" >>, RawFile, Elsewhere, Plain },
                     r \in { GitHub,
                             << "http://", "github.com", "/", "example", "/", "mit-lib", ".git" >>,
                             << "https://", "gitlab.com", "/", "example", "/", "mit-lib" >>,
                             None } }
        WithText == Bases \cup { Put(b, "license_text", TextB) : b \in Bases }
        WithUrl == WithText
                   \cup { Put(b, "license_url",
                              << "https://", "github.com", "/", "example", "/", "mit-lib",
                                 "/", "blob", "/", "main", "/", "LICENSE", "-MIT" >>) :
                          b \in WithText }
                   \cup { Put(b, "license_url", RawFile) : b \in WithText }
        Listings == { { << "Cargo.toml" >> },
                      { << "Cargo.toml" >>, << "LICENSE", "-MIT" >> },
                      { << "Cargo.toml" >>, << "LICENSE", "-MIT" >>, << "LICENSE" >> } }
        Urls == { ProbeUrls(GitHub, "mit-lib", << "LICENSE", "-MIT" >>)[k] : k \in 1..4 }
                \cup { Elsewhere }
        Env(listing, live) ==
            [listdir |-> (Dir :> listing),
             files |-> [p \in { Dir \o << "/" >> \o nm : nm \in listing } |-> TextA],
             web |-> [u \in live |-> Ok]]
    IN  /\ recordArgs \in { [pkgInfo |-> p, env |-> Env(l, w)] :
                              p \in WithUrl, l \in Listings, w \in SUBSET Urls }
        /\ recordFrame = [pc |-> "choose", chosenLicense |-> None, licenseFile |-> None,
                          licenseText |-> None]
        /\ requests = << >>
        /\ recordResult = Pending

\* No record is made.
RecordIdle ==
    /\ recordArgs = [pkgInfo |-> EmptyDict, env |-> EmptyDict]
    /\ recordFrame = [pc |-> "idle", chosenLicense |-> None, licenseFile |-> None,
                      licenseText |-> None]
    /\ requests = << >>
    /\ recordResult = [kind |-> "idle"]

\* The directory of the package is listed before its license is chosen.
ChooseLicenseAfterListing ==
    /\ recordFrame.pc = "choose"
    /\ LET pkgInfo == recordArgs.pkgInfo
           chosen == pick_most_acceptable_license(pkgInfo.id, pkgInfo.license)
       IN  /\ requests' = Append(requests,
                                 [op |-> "listdir", at |-> Dirname(pkgInfo.manifest_path)])
           /\ IF chosen.kind = "raise"
              THEN /\ recordFrame' = [recordFrame EXCEPT !.pc = "raised"]
                   /\ recordResult' = chosen
              ELSE /\ recordFrame' = [recordFrame EXCEPT !.pc = "locate",
                                                         !.chosenLicense = chosen.value]
                   /\ UNCHANGED recordResult
    /\ UNCHANGED recordArgs
    /\ UNCHANGED <<pickVars, catalogVars, locateVars, groupVars, printVars, resolveVars>>

\* chosenLicense = self.pick_most_acceptable_license(id, pkgInfo["license"])
ChooseLicense ==
    /\ recordFrame.pc = "choose"
    /\ LET pkgInfo == recordArgs.pkgInfo
           chosen == pick_most_acceptable_license(pkgInfo.id, pkgInfo.license)
       IN  /\ UNCHANGED requests
           /\ IF chosen.kind = "raise"
              THEN /\ recordFrame' = [recordFrame EXCEPT !.pc = "raised"]
                   /\ recordResult' = chosen
              ELSE /\ recordFrame' = [recordFrame EXCEPT !.pc = "locate",
                                                         !.chosenLicense = chosen.value]
                   /\ UNCHANGED recordResult
    /\ UNCHANGED recordArgs
    /\ UNCHANGED <<pickVars, catalogVars, locateVars, groupVars, printVars, resolveVars>>

\* licenseFile = self._find_license_file(id, chosenLicense, pkgInfo), which
\* lists the package directory when pkgInfo declares no license file, and
\* the two assertions after it.
LocateFile ==
    /\ recordFrame.pc = "locate"
    /\ LET pkgInfo == recordArgs.pkgInfo
           pkgRoot == Dirname(pkgInfo.manifest_path)
           found == find_license_file(pkgInfo.id, recordFrame.chosenLicense, pkgInfo,
                                      ListDir(recordArgs.env, pkgRoot))
       IN  /\ requests' = IF Get(pkgInfo, "license_file") # None THEN requests
                          ELSE Append(requests, [op |-> "listdir", at |-> pkgRoot])
           /\ IF found.kind = "raise"
              THEN /\ recordFrame' = [recordFrame EXCEPT !.pc = "raised"]
                   /\ recordResult' = found
              ELSE IF pkgInfo.repository = None
              THEN /\ recordFrame' = [recordFrame EXCEPT !.pc = "raised"]
                   /\ recordResult' = [kind |-> "raise", error |-> "AssertionError",
                                       message |-> [text |-> "pkgInfo[\"repository\"] is not None"]]
              ELSE /\ recordFrame' = [recordFrame EXCEPT !.pc = "text",
                                                         !.licenseFile = found.value]
                   /\ UNCHANGED recordResult
    /\ UNCHANGED recordArgs
    /\ UNCHANGED <<pickVars, catalogVars, locateVars, groupVars, printVars, resolveVars>>

\* "license_text": self._fetch_license_text(id, licenseFile, pkgInfo)
ResolveText ==
    /\ recordFrame.pc = "text"
    /\ LET pkgInfo == recordArgs.pkgInfo
           text == fetch_license_text(recordArgs.env, pkgInfo.id, recordFrame.licenseFile, pkgInfo)
       IN  /\ requests' = requests \o FetchRequests(recordFrame.licenseFile, pkgInfo)
           /\ IF text.kind = "raise"
              THEN /\ recordFrame' = [recordFrame EXCEPT !.pc = "raised"]
                   /\ recordResult' = text
              ELSE /\ recordFrame' = [recordFrame EXCEPT !.pc = "url",
                                                         !.licenseText = text.value]
                   /\ UNCHANGED recordResult
    /\ UNCHANGED recordArgs
    /\ UNCHANGED <<pickVars, catalogVars, locateVars, groupVars, printVars, resolveVars>>

\* "license_url": self._find_license_url(id, chosenLicense, licenseFile,
\* pkgInfo), and the record is returned.
ResolveUrl ==
    /\ recordFrame.pc = "url"
    /\ LET pkgInfo == recordArgs.pkgInfo
           url == find_license_url(recordArgs.env, pkgInfo.id, recordFrame.chosenLicense,
                                   recordFrame.licenseFile, pkgInfo)
       IN  /\ requests' = requests
                            \o ProbeRequests(recordArgs.env, recordFrame.licenseFile, pkgInfo)
           /\ IF url.kind = "raise"
              THEN /\ recordFrame' = [recordFrame EXCEPT !.pc = "raised"]
                   /\ recordResult' = url
              ELSE /\ recordFrame' = [recordFrame EXCEPT !.pc = "done"]
                   /\ recordResult' =
                         [kind |-> "return",
                          value |-> [name |-> pkgInfo.name,
                                     id |-> pkgInfo.id,
                                     repository |-> pkgInfo.repository,
                                     license |-> recordFrame.chosenLicense,
                                     license_file |-> recordFrame.licenseFile,
                                     license_text |-> recordFrame.licenseText,
                                     license_url |-> url.value]]
    /\ UNCHANGED recordArgs
    /\ UNCHANGED <<pickVars, catalogVars, locateVars, groupVars, printVars, resolveVars>>

(***************************************************************************)
(* Dependency resolution: get_dependency_summary and what it calls.        *)
(*                                                                         *)
(* A target triple is a sequence of atoms whose last atom is its platform  *)
(* ending ("-android", "-androideabi", "-ios") when it has one.            *)
(***************************************************************************)

ALL_ANDROID_TARGETS ==
    << << "armv7-linux", "-androideabi" >>,
       << "aarch64-linux", "-android" >>,
       << "aarch64-apple-darwin" >>,
       << "i686-linux", "-android" >>,
       << "x86_64-linux", "-android" >>,
       << "x86_64-unknown-linux-gnu" >>,
       << "x86_64-apple-darwin" >>,
       << "x86_64-pc-windows-msvc" >>,
       << "x86_64-pc-windows-gnu" >> >>

\* ALL_IOS_TARGETS, which depends on sys.platform.
ALL_IOS_TARGETS(platform) ==
    IF platform # "darwin"
    THEN << << "fake-target-for", "-ios" >> >>
    ELSE << << "x86_64-apple", "-ios" >>, << "aarch64-apple", "-ios" >> >>

ALL_TARGETS(platform) == ALL_ANDROID_TARGETS \o ALL_IOS_TARGETS(platform)

\* PACKAGES_WITH_EXTRA_DEPENDENCIES: the ids listed for a package name.
PACKAGES_WITH_EXTRA_DEPENDENCIES ==
    ("nss_sys" :> { << "ext-nss" >>, << "ext-nspr" >> })
    @@ ("openssl-sys" :> { << "ext-openssl" >> })
    @@ ("rusqlite" :> { << "ext-sqlite" >> })
    @@ ("rc_crypto" :> { << "ext-ring" >> })

\* WorkspaceMetadata.target_is_android(target)
target_is_android(target) ==
    EndsWith(target, << "-android" >>) \/ EndsWith(target, << "-androideabi" >>)

\* WorkspaceMetadata.target_is_ios(target)
target_is_ios(target) == EndsWith(target, << "-ios" >>)

\* [target for target in targets if not self.target_is_ios(target)]
RECURSIVE WithoutIos(_)
WithoutIos(targets) ==
    IF targets = << >> THEN << >>
    ELSE IF target_is_ios(targets[1]) THEN WithoutIos(Tail(targets))
    ELSE << targets[1] >> \o WithoutIos(Tail(targets))

\* get_compatible_targets_for_package without its filter for cdylib packages.
CompatibleTargetsUnfiltered(self, platform, name, targets) ==
    IF targets = None \/ targets = << >> THEN ALL_TARGETS(platform) ELSE targets

\* WorkspaceMetadata.get_compatible_targets_for_package(name, targets), for
\* targets that are None or a list.
get_compatible_targets_for_package(self, platform, name, targets) ==
    LET requested == IF targets = None \/ targets = << >> THEN ALL_TARGETS(platform)
                     ELSE targets
        pkgInfo == self.pkgInfoById[self.workspaceMembersByName[name]]
    IN  IF \E k \in 1..Len(pkgInfo.targets) : "cdylib" \in Range(pkgInfo.targets[k].kind)
        THEN WithoutIos(requested)
        ELSE requested

\* The target of the list passed to cargo as it is, stand-in or not.
TargetAsListed(target) == target

\* The target passed to cargo for a target of the list.
ThisTarget(target) ==
    IF target = << "fake-target-for", "-ios" >> THEN << "x86_64-apple-darwin" >> ELSE target

\* The ids of the packages whose manifests are the inputs of a build plan.
BuildPlanDeps(self, inputs) ==
    { self.pkgInfoByManifestPath[inputs[k]].id : k \in 1..Len(inputs) }

\* get_extra_dependencies_not_managed_by_cargo without its loop over deps.
ExtrasOfTargetsOnly(self, name, targets, ds) ==
    (IF \E k \in 1..Len(targets) : target_is_android(targets[k])
     THEN { << "ext-jna" >>, << "ext-protobuf" >> } ELSE {})
    \cup
    (IF \E k \in 1..Len(targets) : target_is_ios(targets[k])
     THEN { << "ext-swift-keychain-wrapper" >> } ELSE {})

\* WorkspaceMetadata.get_extra_dependencies_not_managed_by_cargo(name, targets, deps)
get_extra_dependencies_not_managed_by_cargo(self, name, targets, ds) ==
    (IF \E k \in 1..Len(targets) : target_is_android(targets[k])
     THEN { << "ext-jna" >>, << "ext-protobuf" >> } ELSE {})
    \cup
    (IF \E k \in 1..Len(targets) : target_is_ios(targets[k])
     THEN { << "ext-swift-keychain-wrapper" >> } ELSE {})
    \cup
    UNION { PACKAGES_WITH_EXTRA_DEPENDENCIES[self.pkgInfoById[dep].name] :
              dep \in { d \in ds : self.pkgInfoById[d].name
                                      \in DOMAIN PACKAGES_WITH_EXTRA_DEPENDENCIES } }

\* os.path.commonprefix([path1, path2]): the longest string both start with.
\* The atoms at which two paths of the model part do not start alike, so the
\* common atoms are the common characters.
RECURSIVE CommonPrefix(_, _)
CommonPrefix(path1, path2) ==
    IF path1 = << >> \/ path2 = << >> THEN << >>
    ELSE IF path1[1] # path2[1] THEN << >>
    ELSE << path1[1] >> \o CommonPrefix(Tail(path1), Tail(path2))

\* WorkspaceMetadata.is_external_dependency(id)
is_external_dependency(self, id) ==
    LET pkgInfo == self.pkgInfoById[id]
    IN  IF "source" \notin DOMAIN pkgInfo THEN TRUE
        ELSE IF pkgInfo.source # None THEN TRUE
        ELSE CommonPrefix(pkgInfo.manifest_path, self.metadata.workspace_root)
                # self.metadata.workspace_root

\* Most targets named in one request.
MaxTargets == 2

\* A package of the `cargo metadata` document of the resolved workspace.
WorkspacePackage(name, source, dir, license, license_file, repository, kinds) ==
    [name |-> name,
     id |-> << name, 1 >>,
     source |-> source,
     manifest_path |-> dir \o << "/", "Cargo.toml" >>,
     license |-> license,
     license_file |-> license_file,
     repository |-> repository,
     targets |-> << [kind |-> kinds] >>]

\* The document: two workspace members, of which demo may build a cdylib and
\* rc_crypto has an entry of its own in PACKAGES_WITH_EXTRA_DEPENDENCIES; three
\* packages of the registry; and a package with no source whose directory is
\* next to the workspace root and starts with its characters.
WorkspaceDocument(cdylib) ==
    LET Registry ==
            << "registry+", "https://", "github.com", "/", "rust-lang", "/", "crates.io-index" >>
    IN
    [packages |->
        << WorkspacePackage("demo", None, << "/", "workspace", "/", "demo" >>,
                            << "MPL-2.0" >>, None, << >>,
                            IF cdylib THEN << "lib", "cdylib" >> ELSE << "lib" >>),
           WorkspacePackage("rc_crypto", None, << "/", "workspace", "/", "rc_crypto" >>,
                            << "MPL-2.0" >>, None, << >>, << "lib" >>),
           WorkspacePackage("mpl-lib", Registry, << "/", "registry", "/", "mpl-lib" >>,
                            << "MPL-2.0" >>, None,
                            << "https://", "github.com", "/", "example", "/", "mpl-lib" >>,
                            << "lib" >>),
           WorkspacePackage("mit-lib", Registry, << "/", "registry", "/", "mit-lib" >>,
                            << "MIT" >>, << "LICENSE", "-MIT" >>,
                            << "http://", "github.com", "/", "example", "/", "mit-lib", ".git" >>,
                            << "lib" >>),
           WorkspacePackage("rusqlite", Registry, << "/", "registry", "/", "rusqlite" >>,
                            << "MIT" >>, None,
                            << "https://", "github.com", "/", "rusqlite", "/", "rusqlite" >>,
                            << "lib" >>),
           WorkspacePackage("sibling", None, << "/", "workspace", "-old", "/", "sibling" >>,
                            << "MIT" >>, None,
                            << "https://", "github.com", "/", "example", "/", "sibling" >>,
                            << "lib" >>) >>,
     workspace_members |-> << << "demo", 1 >>, << "rc_crypto", 1 >> >>,
     workspace_root |-> << "/", "workspace" >>]

\* The disk and the web the resolved workspace lives in.
WorkspaceEnv ==
    LET Ok(content) == [status_code |-> 200, content |-> content]
        Raw(owner, name, branch) ==
            << "https://", "raw.githubusercontent.com", "/", owner, "/", name, "/", branch, "/" >>
        Dir(name) == << "/", "registry", "/", name >>
        Sibling == << "/", "workspace", "-old", "/", "sibling" >>
    IN  [listdir |->
            (Dir("mpl-lib") :> { << "Cargo.toml" >>, << "LICENSE" >>, << "src" >> })
            @@ (Dir("mit-lib") :>
                    { << "Cargo.toml" >>, << "LICENSE", "-MIT" >>, << "LICENSE", "-APACHE" >> })
            @@ (Dir("rusqlite") :> { << "Cargo.toml" >>, << "LICENSE" >> })
            @@ (Sibling :> { << "Cargo.toml" >>, << "LICENSE" >> }),
         files |->
            (Dir("mpl-lib") \o << "/", "LICENSE" >> :> << "Mozilla Public License Version 2.0" >>)
            @@ (Dir("mit-lib") \o << "/", "LICENSE", "-MIT" >> :> TextA)
            @@ (Dir("rusqlite") \o << "/", "LICENSE" >> :> << "Copyright", " ", "R" >>)
            @@ (Sibling \o << "/", "LICENSE" >> :> << "Copyright", " ", "S" >>),
         web |->
            (Raw("example", "mpl-lib", "master") \o << "LICENSE" >>
                :> Ok(<< "Mozilla Public License Version 2.0" >>))
            @@ (Raw("example", "mit-lib", "main") \o << "LICENSE", "-MIT" >> :> Ok(TextA))
            @@ (Raw("rusqlite", "rusqlite", "main") \o << "LICENSE" >>
                :> Ok(<< "Copyright", " ", "R" >>))
            @@ (Raw("example", "sibling", "main") \o << "LICENSE" >>
                :> Ok(<< "Copyright", " ", "S" >>))
            @@ (EXTRA_PACKAGE_METADATA("ext-jna").license_file
                :> Ok(<< "Apache License", "\n", "Copyright", " ", "[yyyy]" >>))
            @@ (EXTRA_PACKAGE_METADATA("ext-protobuf").license_file
                :> Ok(<< "Copyright", " ", "Google" >>))
            @@ (EXTRA_PACKAGE_METADATA("ext-swift-keychain-wrapper").license_file
                :> Ok(<< "Copyright", " ", "jrendel" >>))]

\* The targets a request names.
Linux == << "x86_64-unknown-linux-gnu" >>
Android == << "aarch64-linux", "-android" >>
Darwin == << "x86_64-apple-darwin" >>
Ios(platform) == ALL_IOS_TARGETS(platform)[1]

\* buildPlan["inputs"] of `cargo build --build-plan --package name --target
\* this_target`: demo needs mpl-lib and mit-lib, and rusqlite on android;
\* rc_crypto needs mit-lib and sibling.
BuildPlanInputs(self, name, this_target) ==
    LET manifest(n) == self.pkgInfoById[<< n, 1 >>].manifest_path
    IN  IF name = "demo"
        THEN << manifest("demo"), manifest("mpl-lib"), manifest("mit-lib") >>
               \o (IF target_is_android(this_target) THEN << manifest("rusqlite") >> ELSE << >>)
        ELSE << manifest("rc_crypto"), manifest("mit-lib"), manifest("sibling") >>

\* The ids of the catalog in an order; a set of ids is iterated in this order
\* or in the reverse of it.
CatalogIds ==
    << << "demo", 1 >>, << "ext-jna" >>, << "mit-lib", 1 >>, << "ext-ring" >>,
       << "rc_crypto", 1 >>, << "ext-protobuf" >>, << "mpl-lib", 1 >>, << "sibling", 1 >>,
       << "ext-swift-keychain-wrapper" >>, << "rusqlite", 1 >>, << "ext-sqlite" >> >>

\* The element of a set of ids that its iteration gives first.
FirstOf(order, ids) ==
    LET at == { k \in 1..Len(CatalogIds) : CatalogIds[k] \in ids }
    IN  IF order = "forward" THEN CatalogIds[Least(at)]
        ELSE CatalogIds[CHOOSE k \in at : \A j \in at : j <= k]

\* The catalog constructed from the document, by whether demo builds a cdylib.
Catalogs == [c \in BOOLEAN |-> WorkspaceMetadata(WorkspaceDocument(c))]

\* The catalog of the resolved workspace.
Catalog == Catalogs[world.cdylib]

\* A run: whether demo builds a cdylib, sys.platform, the order sets of ids are
\* iterated in, the cargo calls that exit non-zero (none or one), and the
\* request, for one or two of the workspace members and for no targets or up
\* to MaxTargets of them.
ResolveInit ==
    /\ world \in [cdylib : BOOLEAN, platform : { "linux", "darwin" },
                   order : { "forward", "backward" },
                   failing : { {} } \cup { { [package |-> n, target |-> t] } :
                                 n \in { "demo", "rc_crypto" }, t \in { Linux, Android, Darwin } }]
    /\ resolveArgs \in
          [packages : { << "demo" >>, << "rc_crypto" >>,
                        << "demo", "rc_crypto" >>, << "rc_crypto", "demo" >> },
           targets : { None } \cup SeqsUpTo({ Linux, Android, Ios(world.platform) }, MaxTargets)]
    /\ frame = [pc |-> "packages", packageNo |-> 1, targets |-> << >>, targetNo |-> 0,
                deps |-> {}, allDeps |-> {}, visited |-> {}]
    /\ cargoCalls = << >>
    /\ summary = << >>
    /\ resolveResult = Pending

\* Nothing is resolved.
ResolveIdle ==
    /\ world = [cdylib |-> FALSE, platform |-> "linux", order |-> "forward", failing |-> {}]
    /\ resolveArgs = [packages |-> << >>, targets |-> None]
    /\ frame = [pc |-> "idle", packageNo |-> 0, targets |-> << >>, targetNo |-> 0,
                deps |-> {}, allDeps |-> {}, visited |-> {}]
    /\ cargoCalls = << >>
    /\ summary = << >>
    /\ resolveResult = [kind |-> "idle"]

\* get_package_dependencies is entered for the next requested package: its
\* compatible targets are computed.
EnterPackage ==
    /\ frame.pc = "packages"
    /\ frame.packageNo <= Len(resolveArgs.packages)
    /\ frame' = [frame EXCEPT
                    !.pc = "targets",
                    !.targets = get_compatible_targets_for_package(
                                    Catalog, world.platform,
                                    resolveArgs.packages[frame.packageNo], resolveArgs.targets),
                    !.targetNo = 1,
                    !.deps = {}]
    /\ UNCHANGED <<world, resolveArgs, cargoCalls, summary, resolveResult>>
    /\ UNCHANGED <<pickVars, catalogVars, locateVars, groupVars, printVars, recordVars>>

\* subprocess_run_cargo without p.check_returncode().
ReturnCodeUnchecked(call, failing) == FALSE

\* p.check_returncode() raises: the call is one that exits non-zero.
CheckReturncodeRaises(call, failing) == call \in failing

\* One pass of `for target in targets`: cargo is run; its non-zero exit is the
\* CalledProcessError of check_returncode, which nothing catches.
RunCargo ==
    /\ frame.pc = "targets"
    /\ frame.targetNo <= Len(frame.targets)
    /\ LET name == resolveArgs.packages[frame.packageNo]
           call == [package |-> name, target |-> ThisTarget(frame.targets[frame.targetNo])]
       IN  /\ cargoCalls' = Append(cargoCalls, call)
           /\ IF CheckReturncodeRaises(call, world.failing)
              THEN /\ frame' = [frame EXCEPT !.pc = "raised"]
                   /\ resolveResult' = [kind |-> "raise", error |-> "CalledProcessError",
                                        message |-> call]
              ELSE /\ frame' = [frame EXCEPT
                                  !.targetNo = @ + 1,
                                  !.deps = @ \cup BuildPlanDeps(Catalog,
                                              BuildPlanInputs(Catalog, name, call.target))]
                   /\ UNCHANGED resolveResult
    /\ UNCHANGED <<world, resolveArgs, summary>>
    /\ UNCHANGED <<pickVars, catalogVars, locateVars, groupVars, printVars, recordVars>>

\* deps = found: the set of the package takes the place of the sets before it.
DepsReplaced(all, found) == found

\* deps |= self.get_package_dependencies(package, targets)
DepsUnited(all, found) == all \cup found

\* get_package_dependencies returns: the extra dependencies are added and the
\* set goes into that of get_dependency_summary.
LeavePackage ==
    /\ frame.pc = "targets"
    /\ frame.targetNo > Len(frame.targets)
    /\ LET name == resolveArgs.packages[frame.packageNo]
           found == frame.deps \cup get_extra_dependencies_not_managed_by_cargo(
                                       Catalog, name, frame.targets, frame.deps)
       IN  frame' = [frame EXCEPT
                        !.pc = IF frame.packageNo = Len(resolveArgs.packages)
                               THEN "deps" ELSE "packages",
                        !.packageNo = @ + 1,
                        !.deps = found,
                        !.allDeps = DepsUnited(@, found)]
    /\ UNCHANGED <<world, resolveArgs, cargoCalls, summary, resolveResult>>
    /\ UNCHANGED <<pickVars, catalogVars, locateVars, groupVars, printVars, recordVars>>

\* One pass of `for id in deps`: a package that is not an external dependency
\* is passed over, the license record of any other is yielded.
VisitDep ==
    /\ frame.pc = "deps"
    /\ frame.visited # frame.allDeps
    /\ LET id == FirstOf(world.order, frame.allDeps \ frame.visited)
           info == get_license_info(Catalog, WorkspaceEnv, id)
       IN  IF ~is_external_dependency(Catalog, id)
           THEN /\ frame' = [frame EXCEPT !.visited = @ \cup { id }]
                /\ UNCHANGED <<summary, resolveResult>>
           ELSE IF info.kind = "raise"
           THEN /\ frame' = [frame EXCEPT !.pc = "raised"]
                /\ resolveResult' = info
                /\ UNCHANGED summary
           ELSE /\ frame' = [frame EXCEPT !.visited = @ \cup { id }]
                /\ summary' = Append(summary, info.value)
                /\ UNCHANGED resolveResult
    /\ UNCHANGED <<world, resolveArgs, cargoCalls>>
    /\ UNCHANGED <<pickVars, catalogVars, locateVars, groupVars, printVars, recordVars>>

\* The generator is exhausted and its consumer groups the records.
GroupSummary ==
    /\ frame.pc = "deps"
    /\ frame.visited = frame.allDeps
    /\ frame' = [frame EXCEPT !.pc = "done"]
    /\ resolveResult' = group_dependencies_for_printing(summary)
    /\ UNCHANGED <<world, resolveArgs, cargoCalls, summary>>
    /\ UNCHANGED <<pickVars, catalogVars, locateVars, groupVars, printVars, recordVars>>

(***************************************************************************)
(* The script: __main__ hands the generator of get_dependency_summary to   *)
(* a renderer, which writes to `output`.  The run keeps to the variables   *)
(* of the resolution and of the renderers; the generator is at "created"   *)
(* until the renderer has group_dependencies_for_printing iterate it.      *)
(***************************************************************************)

\* deps = metadata.get_dependency_summary(args.packages, args.targets) and
\* the choice of args.format, "start" for markdown and "pom" for pom.
MainInit ==
    /\ world \in [cdylib : BOOLEAN, platform : { "linux", "darwin" },
                   order : { "forward", "backward" },
                   failing : { {} } \cup { { [package |-> n, target |-> t] } :
                                 n \in { "demo", "rc_crypto" }, t \in { Linux, Android, Darwin } }]
    /\ resolveArgs \in
          [packages : { << "demo" >>, << "rc_crypto" >>,
                        << "demo", "rc_crypto" >>, << "rc_crypto", "demo" >> },
           targets : { None } \cup SeqsUpTo({ Linux, Android, Ios(world.platform) }, MaxTargets)]
    /\ frame = [pc |-> "created", packageNo |-> 1, targets |-> << >>, targetNo |-> 0,
                deps |-> {}, allDeps |-> {}, visited |-> {}]
    /\ cargoCalls = << >>
    /\ summary = << >>
    /\ resolveResult = Pending
    /\ printDeps = << >>
    /\ file = << >>
    /\ sections = << >>
    /\ sectionNo = 0
    /\ printPc \in { "start", "pom" }
    /\ printResult = Pending

\* The renderer is entered: it prints its first lines and calls
\* group_dependencies_for_printing(deps), which starts the generator.
MainOpen ==
    /\ frame.pc = "created"
    /\ printPc \in { "start", "pom" }
    /\ file' = file \o (IF printPc = "start" THEN MarkdownHeader ELSE PomOpening)
    /\ printPc' = IF printPc = "start" THEN "grouping" ELSE "pom-grouping"
    /\ frame' = [frame EXCEPT !.pc = "packages"]
    /\ UNCHANGED <<printDeps, sections, sectionNo, printResult>>
    /\ UNCHANGED <<world, resolveArgs, cargoCalls, summary, resolveResult>>
    /\ UNCHANGED <<pickVars, catalogVars, locateVars, groupVars, recordVars>>

\* group_dependencies_for_printing(deps) is over: what the generator or the
\* grouping raised leaves the renderer and the script, the groups returned
\* are the sections.
MainSections ==
    /\ frame.pc \in { "done", "raised" }
    /\ printPc \in { "grouping", "pom-grouping" }
    /\ IF resolveResult.kind = "raise"
       THEN /\ printResult' = resolveResult
            /\ printPc' = "raised"
            /\ UNCHANGED <<sections, sectionNo>>
       ELSE /\ sections' = resolveResult.value
            /\ sectionNo' = 1
            /\ printPc' = IF printPc = "grouping" THEN "toc" ELSE "licenses"
            /\ UNCHANGED printResult
    /\ UNCHANGED <<printDeps, file>>
    /\ UNCHANGED <<pickVars, catalogVars, locateVars, groupVars, resolveVars, recordVars>>

(***************************************************************************)
(* Specifications: one per component, each on inputs drawn by its Init.    *)
(***************************************************************************)

InitPick == PickInit /\ CatalogIdle /\ LocateIdle /\ GroupIdle /\ PrintIdle /\ ResolveIdle /\ RecordIdle

SpecPick == InitPick /\ [][PickMostAcceptableLicense]_vars

InitCatalog == CatalogInit /\ PickIdle /\ LocateIdle /\ GroupIdle /\ PrintIdle /\ ResolveIdle /\ RecordIdle

SpecCatalog == InitCatalog /\ [][ConstructWorkspaceMetadata]_vars

InitLocate == LocateInit /\ PickIdle /\ CatalogIdle /\ GroupIdle /\ PrintIdle /\ ResolveIdle /\ RecordIdle

SpecLocate == InitLocate /\ [][FindLicenseFile]_vars

InitGroup == GroupInit /\ PickIdle /\ CatalogIdle /\ LocateIdle /\ PrintIdle /\ ResolveIdle /\ RecordIdle

SpecGroup == InitGroup /\ [][GroupDependenciesForPrinting]_vars

InitPrint == PrintInit /\ PickIdle /\ CatalogIdle /\ LocateIdle /\ GroupIdle /\ ResolveIdle /\ RecordIdle

NextPrint == PrintHeader \/ PrintTocEntry \/ PrintRule \/ PrintSection

SpecPrint == InitPrint /\ [][NextPrint]_vars

InitPom == PomInit /\ PickIdle /\ CatalogIdle /\ LocateIdle /\ GroupIdle /\ ResolveIdle /\ RecordIdle

NextPom == PomOpen \/ PomSection \/ PomClose

SpecPom == InitPom /\ [][NextPom]_vars

InitResolve ==
    ResolveInit /\ PickIdle /\ CatalogIdle /\ LocateIdle /\ GroupIdle /\ PrintIdle /\ RecordIdle

NextResolve == EnterPackage \/ RunCargo \/ LeavePackage \/ VisitDep \/ GroupSummary

SpecResolve == InitResolve /\ [][NextResolve]_vars

InitMain == MainInit /\ PickIdle /\ CatalogIdle /\ LocateIdle /\ GroupIdle /\ RecordIdle

NextMain ==
    \/ MainOpen \/ EnterPackage \/ RunCargo \/ LeavePackage \/ VisitDep \/ GroupSummary
    \/ MainSections \/ PrintTocEntry \/ PrintRule \/ PrintSection \/ PomSection \/ PomClose

SpecMain == InitMain /\ [][NextMain]_vars

InitRecord ==
    RecordInit /\ PickIdle /\ CatalogIdle /\ LocateIdle /\ GroupIdle /\ PrintIdle /\ ResolveIdle

NextRecord == ChooseLicense \/ LocateFile \/ ResolveText \/ ResolveUrl

SpecRecord == InitRecord /\ [][NextRecord]_vars

(***************************************************************************)
(* Claims about the license preference policy (checked under SpecPick).    *)
(***************************************************************************)

PickDone == pickResult.kind \in {"return", "raise"}

\* The candidates of the expression the call was made on.
PickCandidates == SplitLicenses(pickArgs.licenseId)

\* c is the spelling of a member of the preference list.
InPreferenceList(c) ==
    \E i \in 1..Len(LICENSES_IN_PREFERENCE_ORDER) : c = LICENSES_IN_PREFERENCE_ORDER[i]

\* Position of a listed candidate in the preference list.
PreferenceIndex(c) ==
    CHOOSE i \in 1..Len(LICENSES_IN_PREFERENCE_ORDER) : c = LICENSES_IN_PREFERENCE_ORDER[i]

\* C1: when at least one candidate of the expression (split on "/" or on the
\* token OR) is in the preference list, the call returns exactly one
\* identifier, which is a candidate and a member of the list, and no candidate
\* stands earlier in the list; "MIT OR Apache-2.0" and "MIT/Apache-2.0" both
\* give "Apache-2.0".
C1_PickReturnsMostPreferred ==
    /\ (PickDone /\ \E c \in PickCandidates : InPreferenceList(c)) =>
          /\ pickResult.kind = "return"
          /\ pickResult.value \in PickCandidates
          /\ InPreferenceList(pickResult.value)
          /\ \A c \in PickCandidates :
                InPreferenceList(c) =>
                    PreferenceIndex(pickResult.value) <= PreferenceIndex(c)
    /\ (PickDone /\ pickArgs.licenseId \in { << "MIT", " ", "OR", " ", "Apache-2.0" >>,
                                             << "MIT", "/", "Apache-2.0" >> }) =>
          pickResult = [kind |-> "return", value |-> << "Apache-2.0" >>]

C1_Witness ==
    /\ pickArgs.licenseId = << "MIT", " ", "OR", " ", "Apache-2.0" >>
    /\ pickResult.kind = "return"
    /\ pickResult.value = << "Apache-2.0" >>

ContainsAnd(licenseId) == \E k \in 1..Len(licenseId) : licenseId[k] = "AND"

\* C2: each of the two literal compound expressions is returned unchanged
\* (not split, no error), and no other expression containing AND is returned
\* unchanged.
C2_SpecialCasesPassThrough ==
    PickDone =>
        /\ pickArgs.licenseId \in {EncodingRsLicense, UnicodeIdentLicense} =>
              pickResult = [kind |-> "return", value |-> pickArgs.licenseId]
        /\ (ContainsAnd(pickArgs.licenseId)
              /\ pickArgs.licenseId \notin {EncodingRsLicense, UnicodeIdentLicense}) =>
              pickResult # [kind |-> "return", value |-> pickArgs.licenseId]

C2_Witness ==
    /\ pickArgs.licenseId = UnicodeIdentLicense
    /\ pickResult = [kind |-> "return", value |-> UnicodeIdentLicense]

\* C3: for every expression other than the two literal exceptions, when no
\* candidate is in the preference list the call raises the unresolvable-license
\* error, whose message names the dependency and the raw expression, and
\* returns no identifier.
C3_PickFailsWithoutAcceptableLicense ==
    (/\ PickDone
     /\ pickArgs.licenseId \notin {EncodingRsLicense, UnicodeIdentLicense}
     /\ \A c \in PickCandidates : ~InPreferenceList(c)) =>
        /\ pickResult.kind = "raise"
        /\ pickResult.error = "RuntimeError"
        /\ pickResult.message.id = pickArgs.id
        /\ pickResult.message.licenseId = pickArgs.licenseId

C3_Witness ==
    /\ pickArgs.licenseId = << "GPL-3.0" >>
    /\ pickResult.kind = "raise"

(***************************************************************************)
(* Claims about catalog construction (checked under SpecCatalog).          *)
(***************************************************************************)

CatalogDone == catalog.kind \in {"return", "raise"}

\* The (package, key, change) triples of the document whose change has both a
\* "check" and a "fixup", as positions in the document and in the rule list.
FullRules ==
    { pr \in (1..Len(metadata.packages)) \X (1..2) :
        /\ metadata.packages[pr[1]].name \in FIXUP_PACKAGES
        /\ metadata.packages[pr[1]].name \notin EXCLUDED_PACKAGES
        /\ pr[2] <= Len(PACKAGE_METADATA_FIXUPS(metadata.packages[pr[1]].name))
        /\ DOMAIN PACKAGE_METADATA_FIXUPS(metadata.packages[pr[1]].name)[pr[2]].change
             = {"check", "fixup"} }

RulePackage(pr) == metadata.packages[pr[1]]
RuleKey(pr) == PACKAGE_METADATA_FIXUPS(RulePackage(pr).name)[pr[2]].key
RuleChange(pr) == PACKAGE_METADATA_FIXUPS(RulePackage(pr).name)[pr[2]].change

\* The value of the rule's field in the document (absent read as None).
LiveValue(pr) ==
    IF RuleKey(pr) \in DOMAIN RulePackage(pr) THEN RulePackage(pr)[RuleKey(pr)] ELSE None

\* C4: for a rule {check: X, fixup: Y}, when the live value is X the field
\* holds Y in the constructed catalog; when the live value differs from X the
\* constructor aborts and no catalog is produced, so Y is never put on top of
\* an unexpected value.
C4_FixupAppliedOnlyOnCheckedValue ==
    CatalogDone =>
        \A pr \in FullRules :
            /\ (LiveValue(pr) = RuleChange(pr).check /\ catalog.kind = "return") =>
                  catalog.pkgInfoById[RulePackage(pr).id][RuleKey(pr)] = RuleChange(pr).fixup
            /\ LiveValue(pr) # RuleChange(pr).check =>
                  /\ catalog.kind = "raise"
                  /\ "pkgInfoById" \notin DOMAIN catalog

C4_Witness ==
    /\ catalog.kind = "return"
    /\ Len(metadata.packages) = 2
    /\ metadata.packages[2].name = "miniz_oxide"
    /\ metadata.packages[2].license = << "MIT", " ", "OR", " ", "Zlib", " ", "OR", " ", "Apache-2.0" >>
    /\ catalog.pkgInfoById[<< "miniz_oxide", 2 >>].license = << "MIT" >>
    /\ catalog.pkgInfoById[<< "miniz_oxide", 2 >>].license_file # None

(***************************************************************************)
(* Claims about the license file locator (checked under SpecLocate).       *)
(***************************************************************************)

LocateDone == locateResult.kind \in {"return", "raise"}

\* The candidate names for a chosen license: its own stems and the generic
\* ones, each with one of the three suffixes.
CandidateNames(license) ==
    LET stems == IF license \in COMMON_LICENSE_FILE_NAME_KEYS
                 THEN Range(COMMON_LICENSE_FILE_NAME_ROOTS(license))
                        \cup { << "license" >>, << "licence" >> }
                 ELSE { << "license" >>, << "licence" >> }
    IN  { stem \o suffix : stem \in stems, suffix \in { << >>, << ".md" >>, << ".txt" >> } }

\* The directory entries that match the candidate set whatever their case.
MatchingEntries ==
    { nm \in listdir : Lower(nm) \in CandidateNames(locateArgs.license) }

\* C5: with no declared license file, the call returns the on-disk name if and
\* only if exactly one directory entry matches the candidate set
\* case-insensitively; two or more matches fail as ambiguous, none fails as
\* not found, and one of several matches is never picked.
C5_LocateOnlyUnambiguous ==
    (LocateDone /\ locateArgs.pkgInfo.license_file = None) =>
        /\ locateResult.kind = "return" <=> Cardinality(MatchingEntries) = 1
        /\ locateResult.kind = "return" => MatchingEntries = { locateResult.value }
        /\ Cardinality(MatchingEntries) >= 2 =>
              /\ locateResult.kind = "raise"
              /\ locateResult.message.text = "Multiple ambiguous license files found"
        /\ Cardinality(MatchingEntries) = 0 =>
              /\ locateResult.kind = "raise"
              /\ locateResult.message.text = "Could not find license file"
        /\ (listdir = { << "LICENSE", "-APACHE", ".md" >> }
              /\ locateArgs.license = << "Apache-2.0" >>) =>
              locateResult = [kind |-> "return", value |-> << "LICENSE", "-APACHE", ".md" >>]
        /\ (listdir = { << "LICENSE", "-APACHE" >>, << "LICENCE", "-APACHE" >> }
              /\ locateArgs.license = << "Apache-2.0" >>) =>
              locateResult.kind = "raise"

C5_Witness ==
    /\ locateArgs.pkgInfo.license_file = None
    /\ locateArgs.license = << "Apache-2.0" >>
    /\ listdir = { << "LICENSE", "-APACHE", ".md" >>, << "COPYING" >>, << "LICENSE", "-MIT" >> }
    /\ locateResult = [kind |-> "return", value |-> << "LICENSE", "-APACHE", ".md" >>]

(***************************************************************************)
(* Claims about the grouping engine (checked under SpecGroup).             *)
(***************************************************************************)

\* group_dependencies_for_printing has returned or raised.
GroupDone == groups.kind \in {"return", "raise"}

\* The positions of the returned groups that hold the info d.
GroupsHolding(d) ==
    { g \in 1..Len(groups.value) :
        \E k \in 1..Len(groups.value[g].dependencies) :
            groups.value[g].dependencies[k] = d }

\* The licenses whose text is taken to be shared boilerplate.
IsBoilerplateLicense(license) ==
    \/ license = << "MPL-2.0" >>
    \/ license = << "Apache-2.0" >>
    \/ (Len(license) > 0 /\ license[1] = "EXT-")

\* C6: in what the grouping returns, the infos under MPL-2.0 are all in one
\* group, those under Apache-2.0 are all in one group, and so are those under
\* each license starting with "EXT-", however their texts differ; no two
\* returned groups have the same such license.
C6_BoilerplateLicensesUnify ==
    groups.kind = "return" =>
        /\ \A g1, g2 \in 1..Len(groups.value) :
              /\ IsBoilerplateLicense(groups.value[g1].license)
              /\ groups.value[g1].license = groups.value[g2].license
              => g1 = g2
        /\ \A i, j \in 1..Len(deps) :
              /\ IsBoilerplateLicense(deps[i].license)
              /\ deps[i].license = deps[j].license
              => /\ Cardinality(GroupsHolding(deps[i])) = 1
                 /\ GroupsHolding(deps[i]) = GroupsHolding(deps[j])

\* Two infos under one boilerplate license, with texts that differ even with
\* the whitespace removed, are returned in one group.
C6_Witness ==
    /\ groups.kind = "return"
    /\ \E i, j \in 1..Len(deps) :
          /\ i # j
          /\ IsBoilerplateLicense(deps[i].license)
          /\ deps[i].license = deps[j].license
          /\ RemoveWhitespace(deps[i].license_text) # RemoveWhitespace(deps[j].license_text)
          /\ GroupsHolding(deps[i]) = GroupsHolding(deps[j])
          /\ GroupsHolding(deps[i]) # {}

\* C7: of the infos under a license that is not MPL-2.0, not Apache-2.0 and
\* not "EXT-"-prefixed, two are returned in the same group exactly when they
\* have the same license and texts that are equal once all whitespace is
\* removed; each such info is in exactly one group.
C7_OtherLicensesGroupByLicenseAndText ==
    groups.kind = "return" =>
        \A i, j \in 1..Len(deps) :
            /\ ~IsBoilerplateLicense(deps[i].license)
            /\ ~IsBoilerplateLicense(deps[j].license)
            => /\ Cardinality(GroupsHolding(deps[i])) = 1
               /\ (GroupsHolding(deps[i]) = GroupsHolding(deps[j]))
                    <=> /\ deps[i].license = deps[j].license
                        /\ RemoveWhitespace(deps[i].license_text)
                             = RemoveWhitespace(deps[j].license_text)

\* Two infos under one such license whose texts differ in whitespace only are
\* returned in one group.
C7_Witness ==
    /\ groups.kind = "return"
    /\ \E i, j \in 1..Len(deps) :
          /\ i # j
          /\ ~IsBoilerplateLicense(deps[i].license)
          /\ deps[i].license = deps[j].license
          /\ deps[i].license_text # deps[j].license_text
          /\ RemoveWhitespace(deps[i].license_text) = RemoveWhitespace(deps[j].license_text)
          /\ GroupsHolding(deps[i]) = GroupsHolding(deps[j])

\* The orders the n infos of a call can be handed over in.
Orders(n) == { p \in [1..n -> 1..n] : \A a, b \in 1..n : p[a] = p[b] => a = b }

\* C8: the grouping of the same infos handed over in any other order returns
\* the same sequence of groups, with the same order inside every group.
C8_GroupingIndependentOfInputOrder ==
    GroupDone =>
        \A p \in Orders(Len(deps)) :
            group_dependencies_for_printing([k \in 1..Len(deps) |-> deps[p[k]]]) = groups

\* The listed licenses, and the place of one in the preference list.
IsListedLicense(license) ==
    \E i \in 1..Len(LICENSES_IN_PREFERENCE_ORDER) : LICENSES_IN_PREFERENCE_ORDER[i] = license

ListedAt(license) ==
    CHOOSE i \in 1..Len(LICENSES_IN_PREFERENCE_ORDER) : LICENSES_IN_PREFERENCE_ORDER[i] = license

\* The names of the members of a returned group.
MemberNames(g) ==
    [k \in 1..Len(groups.value[g].dependencies) |-> groups.value[g].dependencies[k].name]

\* C9: the returned groups are in the order of their license's place in the
\* preference list, every group with an unlisted license after every group
\* with a listed one, and groups that tie on that are in the order of their
\* lists of member names, each of which is itself sorted.
C9_GroupsSortedByPreferenceThenNames ==
    groups.kind = "return" =>
        /\ \A g \in 1..Len(groups.value) :
              \A k \in 1..(Len(MemberNames(g)) - 1) :
                  ~NameLess(MemberNames(g)[k + 1], MemberNames(g)[k])
        /\ \A g1, g2 \in 1..Len(groups.value) :
              g1 < g2 =>
                LET l1 == groups.value[g1].license
                    l2 == groups.value[g2].license
                IN  \/ IsListedLicense(l1) /\ ~IsListedLicense(l2)
                    \/ /\ IsListedLicense(l1) /\ IsListedLicense(l2)
                       /\ ListedAt(l1) < ListedAt(l2)
                    \/ /\ \/ ~IsListedLicense(l1) /\ ~IsListedLicense(l2)
                          \/ /\ IsListedLicense(l1) /\ IsListedLicense(l2)
                             /\ ListedAt(l1) = ListedAt(l2)
                       /\ ~NameListLess(MemberNames(g2), MemberNames(g1))

\* A group with an unlisted license is returned after a group with a listed
\* one whose member names come later.
C9_Witness ==
    /\ groups.kind = "return"
    /\ Len(groups.value) = 2
    /\ IsListedLicense(groups.value[1].license)
    /\ ~IsListedLicense(groups.value[2].license)
    /\ NameListLess(MemberNames(2), MemberNames(1))

(***************************************************************************)
(* Claims about the markdown renderer (checked under SpecPrint).           *)
(***************************************************************************)

\* The sections whose details loop pass has printed its opening fence.
SectionsOpened ==
    IF printPc = "details" THEN 1..(sectionNo - 1)
    ELSE IF printPc = "done" \/ (printPc = "raised" /\ printResult.error = "AssertionError")
         THEN (1..sectionNo) \cap (1..Len(sections))
    ELSE {}

\* C10: no license text with the fence delimiter in it is ever printed: a
\* section that has such a text ends the render with an AssertionError once
\* its opening fence is printed, with the fence the last string in the file
\* and the text not in it.
C10_NoFenceInRenderedLicenseText ==
    /\ \A s \in 1..Len(sections) :
          Contains(sections[s].license_text, Fence) =>
              \A k \in 1..Len(file) : file[k] # sections[s].license_text
    /\ \A s \in SectionsOpened :
          Contains(sections[s].license_text, Fence) =>
              /\ s = sectionNo
              /\ printPc = "raised"
              /\ printResult.kind = "raise"
              /\ printResult.error = "AssertionError"
              /\ file[Len(file)] = << Fence >>
    /\ \A k \in 1..Len(file) : Contains(file[k], Fence) => file[k] = << Fence >>

\* The second section has a text with the delimiter in it: the first one is
\* printed in full and the render ends at the opening fence of the second.
C10_Witness ==
    /\ printPc = "raised"
    /\ printResult.error = "AssertionError"
    /\ sectionNo = 2
    /\ Contains(sections[2].license_text, Fence)
    /\ file[Len(file)] = << Fence >>
    /\ \E k \in 1..Len(file) : file[k] = sections[1].license_text

(***************************************************************************)
(* Claims about dependency resolution (checked under SpecResolve).         *)
(***************************************************************************)

\* The records were yielded and grouped.
ResolveDone == frame.pc = "done"

\* The run was asked for demo alone on x86_64-unknown-linux-gnu alone.
DemoOnLinux ==
    /\ resolveArgs.packages = << "demo" >>
    /\ resolveArgs.targets # None
    /\ resolveArgs.targets = << << "x86_64-unknown-linux-gnu" >> >>

\* The only member of a group is the record of the package of that name,
\* with this text and this URL.
HoldsOnly(group, name, text, url) ==
    /\ Len(group.dependencies) = 1
    /\ group.dependencies[1].id = << name, 1 >>
    /\ group.dependencies[1].name = name
    /\ group.dependencies[1].license = group.license
    /\ group.dependencies[1].license_text = text
    /\ group.dependencies[1].license_url = url

\* C11: resolving demo alone for x86_64-unknown-linux-gnu alone, where the
\* build plan gives demo itself, mpl-lib (MPL-2.0) and mit-lib (MIT), returns
\* exactly two groups, MPL-2.0 then MIT, each holding the one record of its
\* dependency with the text of its license file and the browsable URL of that
\* file, and nothing of demo or of a package managed outside of cargo.
C11_DemoOnLinuxGivesTwoGroups ==
    (ResolveDone /\ DemoOnLinux) =>
        /\ resolveResult.kind = "return"
        /\ Len(resolveResult.value) = 2
        /\ resolveResult.value[1].license = << "MPL-2.0" >>
        /\ resolveResult.value[2].license = << "MIT" >>
        /\ HoldsOnly(resolveResult.value[1], "mpl-lib",
                     << "Mozilla Public License Version 2.0" >>,
                     << "https://", "github.com", "/", "example", "/", "mpl-lib", "/",
                        "blob", "/", "master", "/", "LICENSE" >>)
        /\ HoldsOnly(resolveResult.value[2], "mit-lib",
                     << "Copyright", " ", "A" >>,
                     << "https://", "github.com", "/", "example", "/", "mit-lib", "/",
                        "blob", "/", "main", "/", "LICENSE", "-MIT" >>)

\* The run ended, and its records were yielded mit-lib first.
C11_Witness ==
    /\ ResolveDone
    /\ DemoOnLinux
    /\ Len(summary) = 2
    /\ summary[1].name = "mit-lib"
    /\ resolveResult.kind = "return"
    /\ Len(resolveResult.value) = 2

\* The target ends in -ios.
IosLike(target) == target[Len(target)] = "-ios"

\* The package declares a build output of kind cdylib: in the workspace of the
\* model that is demo, when the workspace is one where it does.
DeclaresCdylib(name) == name = "demo" /\ world.cdylib

\* The targets of the request, or all the configured ones when it names none.
RequestedOrAll ==
    IF resolveArgs.targets = None \/ resolveArgs.targets = << >>
    THEN << << "armv7-linux", "-androideabi" >>, << "aarch64-linux", "-android" >>,
            << "aarch64-apple-darwin" >>, << "i686-linux", "-android" >>,
            << "x86_64-linux", "-android" >>, << "x86_64-unknown-linux-gnu" >>,
            << "x86_64-apple-darwin" >>, << "x86_64-pc-windows-msvc" >>,
            << "x86_64-pc-windows-gnu" >> >>
         \o (IF world.platform = "darwin"
             THEN << << "x86_64-apple", "-ios" >>, << "aarch64-apple", "-ios" >> >>
             ELSE << << "fake-target-for", "-ios" >> >>)
    ELSE resolveArgs.targets

\* The targets a package is to be resolved for according to the claim.
EffectiveTargets(name) ==
    LET Keeps(target) == ~(DeclaresCdylib(name) /\ IosLike(target))
    IN  SelectSeq(RequestedOrAll, Keeps)

\* The targets cargo was run for on behalf of a package, in the order of the runs.
CallsFor(name) ==
    LET Of(call) == call.package = name
        calls == SelectSeq(cargoCalls, Of)
    IN  [k \in 1..Len(calls) |-> calls[k].target]

\* The target cargo is given for a target: the stand-in for ios targets off
\* macOS is built as x86_64-apple-darwin.
GivenToCargo(targets) ==
    [k \in 1..Len(targets) |->
        IF targets[k] = << "fake-target-for", "-ios" >>
        THEN << "x86_64-apple-darwin" >> ELSE targets[k]]

\* get_package_dependencies has returned for the k-th requested package.
Resolved(k) ==
    /\ k \in 1..Len(resolveArgs.packages)
    /\ frame.pc \in { "packages", "deps", "done" }
    /\ k < frame.packageNo

\* C12: a package is resolved for the requested targets, or all the
\* configured ones when none is requested, without the ios-like ones exactly
\* when that package declares a cdylib; cargo is run for these targets and no
\* other, for each package by its own target set, so a package with no
\* cdylib is run for the ios-like targets next to one that has; and a package
\* left with no target has no cargo run and an empty resolved set.
C12_TargetsNarrowedPerPackage ==
    /\ frame.pc = "targets" =>
          frame.targets = EffectiveTargets(resolveArgs.packages[frame.packageNo])
    /\ \A k \in 1..Len(resolveArgs.packages) :
          Resolved(k) =>
              CallsFor(resolveArgs.packages[k])
                  = GivenToCargo(EffectiveTargets(resolveArgs.packages[k]))
    /\ (Resolved(frame.packageNo - 1)
          /\ EffectiveTargets(resolveArgs.packages[frame.packageNo - 1]) = << >>) =>
              /\ CallsFor(resolveArgs.packages[frame.packageNo - 1]) = << >>
              /\ frame.deps = {}

\* Both members were resolved for an ios-like target alone, demo declaring a
\* cdylib: cargo ran for rc_crypto only, and demo brought nothing.
C12_Witness ==
    /\ world.cdylib
    /\ resolveArgs.packages = << "rc_crypto", "demo" >>
    /\ resolveArgs.targets # None
    /\ Len(resolveArgs.targets) = 1
    /\ IosLike(resolveArgs.targets[1])
    /\ Resolved(2)
    /\ frame.deps = {}
    /\ Len(cargoCalls) = 1
    /\ cargoCalls[1].package = "rc_crypto"
    /\ << "rc_crypto", 1 >> \in frame.allDeps

\* The target ends in -android or -androideabi.
AndroidLike(target) == target[Len(target)] \in { "-android", "-androideabi" }

\* The part of the resolved set of the package last resolved that the build
\* plans gave, and the part managed outside of cargo: an id of the former has
\* a version, an id of the latter is a name alone.
GraphResolved == { d \in frame.deps : Len(d) = 2 }
Synthetic == { d \in frame.deps : Len(d) = 1 }

\* The entries the extra-dependency table lists for the packages of the
\* workspace of the model that are among its keys.
ExtraTable ==
    ("rusqlite" :> { << "ext-sqlite" >> }) @@ ("rc_crypto" :> { << "ext-ring" >> })

\* C13: when a package has been resolved, its resolved set holds ext-jna and
\* ext-protobuf exactly when one of its effective targets is android-like,
\* ext-swift-keychain-wrapper exactly when one is ios-like, every entry the
\* extra-dependency table lists for the name of a dependency the build plans
\* gave (first-party or not), and no other entry managed outside of cargo.
C13_ExtrasByTargetAndByName ==
    Resolved(frame.packageNo - 1) =>
        /\ << "ext-jna" >> \in Synthetic
              <=> \E k \in 1..Len(frame.targets) : AndroidLike(frame.targets[k])
        /\ << "ext-protobuf" >> \in Synthetic
              <=> \E k \in 1..Len(frame.targets) : AndroidLike(frame.targets[k])
        /\ << "ext-swift-keychain-wrapper" >> \in Synthetic
              <=> \E k \in 1..Len(frame.targets) : IosLike(frame.targets[k])
        /\ \A d \in GraphResolved :
              d[1] \in DOMAIN ExtraTable => ExtraTable[d[1]] \subseteq Synthetic
        /\ Synthetic \subseteq
              { << "ext-jna" >>, << "ext-protobuf" >>, << "ext-swift-keychain-wrapper" >> }
              \cup UNION { ExtraTable[d[1]] :
                             d \in { g \in GraphResolved : g[1] \in DOMAIN ExtraTable } }

\* rc_crypto, a first-party package of the table, was resolved for an
\* android-like and an ios-like target.
C13_Witness ==
    /\ Resolved(1)
    /\ frame.packageNo = 2
    /\ resolveArgs.packages[1] = "rc_crypto"
    /\ \E k \in 1..Len(frame.targets) : AndroidLike(frame.targets[k])
    /\ \E k \in 1..Len(frame.targets) : IosLike(frame.targets[k])
    /\ Synthetic = { << "ext-jna" >>, << "ext-protobuf" >>,
                     << "ext-swift-keychain-wrapper" >>, << "ext-ring" >> }

\* The manifest lies in the directory root or below it: its path goes on with
\* a "/" where the path of root ends.
InsideDirectory(manifest_path, root) ==
    /\ Len(manifest_path) > Len(root)
    /\ SubSeq(manifest_path, 1, Len(root)) = root
    /\ manifest_path[Len(root) + 1] = "/"

\* What the claim takes for an external dependency: a package managed outside
\* of cargo, one with a source, or one whose manifest is not inside the
\* directory of the workspace root.
ExternalByDirectory(id) ==
    \/ Len(id) = 1
    \/ Catalog.pkgInfoById[id].source # None
    \/ ~InsideDirectory(Catalog.pkgInfoById[id].manifest_path,
                        Catalog.metadata.workspace_root)

\* The record is that of the package of this id; the record of a package
\* managed outside of cargo, which has no id, carries its name for an id.
IsRecordOf(record, id) ==
    IF Len(id) = 2 THEN record.id = id
    ELSE record.id = << Catalog.pkgInfoById[id].name >>

\* C14: of the resolved ids the loop of get_dependency_summary has gone over,
\* those with a record in the summary are the packages managed outside of
\* cargo, those with a source, and those with no source whose manifest lies
\* outside the directory of the workspace root; only a package with no source
\* and a manifest inside that directory is left out.
C14_FirstPartyByDirectoryContainment ==
    \A id \in frame.visited :
        ExternalByDirectory(id) <=> \E k \in 1..Len(summary) : IsRecordOf(summary[k], id)

\* The number of records of the summary that are records of this id.
RecordsOf(id) == Cardinality({ k \in 1..Len(summary) : IsRecordOf(summary[k], id) })

\* The ids the build plan of a cargo call gave.
PlanOf(call) == BuildPlanDeps(Catalog, BuildPlanInputs(Catalog, call.package, call.target))

\* C15: when the summary is complete, each id that is_external_dependency
\* accepts among those of the build plans of the cargo calls and of the union
\* of the resolved sets has exactly one record, however many packages and
\* targets gave it, and every record is that of such an id.
C15_OneRecordPerExternalId ==
    ResolveDone =>
        /\ \A c \in 1..Len(cargoCalls) : \A id \in PlanOf(cargoCalls[c]) :
              is_external_dependency(Catalog, id) => RecordsOf(id) = 1
        /\ \A id \in frame.allDeps :
              is_external_dependency(Catalog, id) => RecordsOf(id) = 1
        /\ \A k \in 1..Len(summary) : \E id \in frame.allDeps :
              is_external_dependency(Catalog, id) /\ IsRecordOf(summary[k], id)

\* Both members were resolved for two targets, so that four build plans gave
\* mit-lib, and mpl-lib came with the first package only.
C15_Witness ==
    /\ ResolveDone
    /\ resolveArgs.packages = << "demo", "rc_crypto" >>
    /\ Len(cargoCalls) = 4
    /\ \A c \in 1..4 : << "mit-lib", 1 >> \in PlanOf(cargoCalls[c])
    /\ RecordsOf(<< "mit-lib", 1 >>) = 1
    /\ RecordsOf(<< "mpl-lib", 1 >>) = 1

\* C16: a cargo call that exits non-zero is the last call made, it is made
\* once, the run has ended with its CalledProcessError, and the summary holds
\* no record, whatever was resolved before the call.
C16_CargoFailureAbortsResolution ==
    \A k \in 1..Len(cargoCalls) :
        cargoCalls[k] \in world.failing =>
            /\ k = Len(cargoCalls)
            /\ frame.pc = "raised"
            /\ resolveResult.kind = "raise"
            /\ resolveResult.error = "CalledProcessError"
            /\ resolveResult.message = cargoCalls[k]
            /\ summary = << >>
            /\ ~ENABLED NextResolve

\* cargo failed for the second package after the first was resolved for two
\* targets.
C16_Witness ==
    /\ frame.pc = "raised"
    /\ frame.packageNo = 2
    /\ frame.allDeps # {}
    /\ Len(cargoCalls) >= 3
    /\ cargoCalls[Len(cargoCalls)] \in world.failing
    /\ summary = << >>

(***************************************************************************)
(* Claims about stale fixups (checked under SpecCatalog).                  *)
(***************************************************************************)

\* The rules of the fixup table that apply to the document, whichever keys
\* their changes have, as positions in the document and in the rule list.
AllRules ==
    { pr \in (1..Len(metadata.packages)) \X (1..2) :
        /\ metadata.packages[pr[1]].name \in FIXUP_PACKAGES
        /\ metadata.packages[pr[1]].name \notin EXCLUDED_PACKAGES
        /\ pr[2] <= Len(PACKAGE_METADATA_FIXUPS(metadata.packages[pr[1]].name)) }

\* The value the rule expects, None for a rule that names none.
ExpectedValue(pr) == IF "check" \in DOMAIN RuleChange(pr) THEN RuleChange(pr).check ELSE None

\* The live value is not the expected one.
Stale(pr) == LiveValue(pr) # ExpectedValue(pr)

\* The rule is checked before the other.
ChecksBefore(pr, other) == pr[1] < other[1] \/ (pr[1] = other[1] /\ pr[2] < other[2])

\* C17: when the live value of a rule differs from its expected value, the
\* constructor ends with the assertion failure of the fixup check, whose
\* message carries the package, the field, the actual and the expected value
\* of the first such rule, whichever keys the rule has.
C17_StaleFixupFailsTheCheck ==
    CatalogDone =>
        \A pr \in AllRules :
            (Stale(pr) /\ \A other \in AllRules : ChecksBefore(other, pr) => ~Stale(other)) =>
                /\ catalog.kind = "raise"
                /\ catalog.error = "AssertionError"
                /\ catalog.message.name = RulePackage(pr).name
                /\ catalog.message.key = RuleKey(pr)
                /\ catalog.message.actual = LiveValue(pr)
                /\ catalog.message.expected = ExpectedValue(pr)

(***************************************************************************)
(* Claims about the pom renderer (checked under SpecPom).                  *)
(***************************************************************************)

\* The lines of the file at which an entry of the license list opens.
PomEntryLines == { i \in 1..Len(file) : file[i] = << "  <license>" >> }

\* C18: when the pom render returns, the license list has exactly one entry
\* for each distinct (name, license, license URL) triple among the infos
\* rendered, also when infos with one triple are in different groups because
\* their license texts differ.
C18_PomListsEachTripleOnce ==
    (printPc = "done" /\ printResult.kind = "return") =>
        /\ Cardinality(PomEntryLines) = Cardinality(PomTriples(printDeps))
        /\ \A i, j \in PomEntryLines :
              (file[i + 1] = file[j + 1] /\ file[i + 2] = file[j + 2]) => i = j

(***************************************************************************)
(* Claims about the text and the title of a group (checked under           *)
(* SpecGroup).                                                             *)
(***************************************************************************)

\* The text has the placeholder of the copyright year and is not that of NSS.
Qualifies(d) ==
    /\ \E k \in 1..Len(d.license_text) : d.license_text[k] = "[yyyy]"
    /\ \A k \in 1..Len(d.license_text) : d.license_text[k] # "NSS"

\* d comes before e in the order of (name, id).
Before(d, e) ==
    \/ NameLess(d.name, e.name)
    \/ d.name = e.name /\ d.id[2] < e.id[2]

\* The members of a returned group.
Members(g) == { groups.value[g].dependencies[k] : k \in 1..Len(groups.value[g].dependencies) }

\* C19: the text of the Apache-2.0 group is that of its first member, in the
\* order of (name, id), whose text holds "[yyyy]" and not "NSS", and when no
\* Apache-2.0 info has such a text the call raises and returns no groups; the
\* text of every other group is that of its first member in that order.
C19_CanonicalTextOfGroup ==
    GroupDone =>
        /\ (/\ \E k \in 1..Len(deps) : deps[k].license = << "Apache-2.0" >>
            /\ \A k \in 1..Len(deps) :
                  deps[k].license = << "Apache-2.0" >> => ~Qualifies(deps[k])) =>
               /\ groups.kind = "raise"
               /\ groups.error = "RuntimeError"
               /\ "value" \notin DOMAIN groups
        /\ groups.kind = "return" =>
               \A g \in 1..Len(groups.value) :
                   IF groups.value[g].license = << "Apache-2.0" >>
                   THEN \E d \in Members(g) :
                           /\ Qualifies(d)
                           /\ \A e \in Members(g) : (Qualifies(e) /\ e # d) => Before(d, e)
                           /\ groups.value[g].license_text = d.license_text
                   ELSE \E d \in Members(g) :
                           /\ \A e \in Members(g) : e # d => Before(d, e)
                           /\ groups.value[g].license_text = d.license_text

\* An Apache-2.0 group of two whose first member has the text of NSS and whose
\* text is that of the second.
C19_Witness ==
    /\ groups.kind = "return"
    /\ Len(groups.value) = 1
    /\ groups.value[1].license = << "Apache-2.0" >>
    /\ Len(groups.value[1].dependencies) = 2
    /\ ~Qualifies(groups.value[1].dependencies[1])
    /\ groups.value[1].license_text = groups.value[1].dependencies[2].license_text
    /\ groups.value[1].license_text # groups.value[1].dependencies[1].license_text

\* The names of the members of a returned group, sorted, each once, with
\* ", " between them.
NamesListed(g) ==
    JoinNames(SortedNameSet([k \in 1..Len(groups.value[g].dependencies) |->
                                groups.value[g].dependencies[k].name]))

\* The original statement of C20: the title of a group is the special name of
\* EXT-OPENSSL or EXT-SQLITE or else the license and " License", followed by
\* ": " and the names of its members whenever the license is neither MPL-2.0
\* nor Apache-2.0.
C20_TitleAsStated ==
    groups.kind = "return" =>
        \A g \in 1..Len(groups.value) :
            groups.value[g].title =
                (IF groups.value[g].license = << "EXT-", "OPENSSL" >> THEN << "OpenSSL License" >>
                 ELSE IF groups.value[g].license = << "EXT-", "SQLITE" >>
                      THEN << "Optional Notice: SQLite" >>
                 ELSE groups.value[g].license \o << " License" >>)
                \o (IF groups.value[g].license \in { << "MPL-2.0" >>, << "Apache-2.0" >> }
                    THEN << >>
                    ELSE << ": " >> \o NamesListed(g))

\* C20, amended: the title of an EXT-OPENSSL, EXT-SQLITE, MPL-2.0 or
\* Apache-2.0 group is the name the code has for that license, with no names
\* after it; the title of every other group is the license and " License",
\* followed by ": " and the sorted names of its members, each once.
C20_TitleOfGroup ==
    groups.kind = "return" =>
        \A g \in 1..Len(groups.value) :
            groups.value[g].title =
                (CASE groups.value[g].license = << "EXT-", "OPENSSL" >> -> << "OpenSSL License" >>
                   [] groups.value[g].license = << "EXT-", "SQLITE" >>
                        -> << "Optional Notice: SQLite" >>
                   [] groups.value[g].license = << "MPL-2.0" >>
                        -> << "Mozilla Public License 2.0" >>
                   [] groups.value[g].license = << "Apache-2.0" >> -> << "Apache License 2.0" >>
                   [] OTHER -> groups.value[g].license \o << " License", ": " >>
                                  \o NamesListed(g))

\* An MPL-2.0 group and an EXT-SQLITE group were returned.
C20_Witness ==
    /\ groups.kind = "return"
    /\ Len(groups.value) = 2
    /\ groups.value[1].license = << "MPL-2.0" >>
    /\ groups.value[1].title = << "Mozilla Public License 2.0" >>
    /\ groups.value[2].license = << "EXT-", "SQLITE" >>
    /\ groups.value[2].title = << "Optional Notice: SQLite" >>

(***************************************************************************)
(* Claims about the cargo runs of get_package_dependencies.                *)
(***************************************************************************)

\* The cargo runs of the packages get_package_dependencies was entered for,
\* as the loops make them: for each package in the order of the request, one
\* run per entry of its target list, in the order of the list; of the
\* package in hand, the runs of the entries passed so far.
RECURSIVE RunsUpTo(_)
RunsUpTo(k) ==
    IF k = 0 THEN << >>
    ELSE LET name == resolveArgs.packages[k]
             all == GivenToCargo(EffectiveTargets(name))
             made == IF k < frame.packageNo THEN Len(all)
                     ELSE IF frame.pc = "raised" THEN frame.targetNo
                     ELSE frame.targetNo - 1
         IN  RunsUpTo(k - 1) \o [i \in 1..made |-> [package |-> name, target |-> all[i]]]

\* The packages get_package_dependencies was entered for.
Entered ==
    IF frame.pc \in { "targets", "raised" } THEN frame.packageNo ELSE frame.packageNo - 1

\* C21 as stated: cargo is never run twice for the same package and the same
\* platform passed to it within one run.
C21_NoCargoRunRepeated ==
    \A i, j \in 1..Len(cargoCalls) : cargoCalls[i] = cargoCalls[j] => i = j

\* C21: cargo is run once for each entry of the effective target list of each
\* requested package, one after the other in the order of the request and of
\* the list, with no retry: the runs so far are those entries, no more.
C21_OneCargoRunPerTargetEntry ==
    frame.pc # "idle" => cargoCalls = RunsUpTo(Entered)

\* Off macOS rc_crypto was resolved for all the configured targets: cargo ran
\* ten times, twice of them for x86_64-apple-darwin.
C21_Witness ==
    /\ world.platform = "linux"
    /\ resolveArgs.packages = << "rc_crypto" >>
    /\ resolveArgs.targets = None
    /\ Resolved(1)
    /\ Len(cargoCalls) = 10
    /\ cargoCalls[7] = cargoCalls[10]
    /\ cargoCalls[10].target = << "x86_64-apple-darwin" >>

(***************************************************************************)
(* Claims about the steps of get_license_info and the requests they make.  *)
(***************************************************************************)

\* The package of the record and the directory of its manifest.
RecordPkg == recordArgs.pkgInfo
RecordDir == SubSeq(RecordPkg.manifest_path, 1, Len(RecordPkg.manifest_path) - 2)

\* pkgInfo holds a license text, a license URL, a license file of its own.
HasEmbeddedText == "license_text" \in DOMAIN RecordPkg
HasExplicitUrl == "license_url" \in DOMAIN RecordPkg /\ RecordPkg.license_url # None
HasDeclaredFile == RecordPkg.license_file # None

\* The reference is one the text is fetched from: it starts with https://.
FetchedRemotely(ref) == ref[1] = "https://"

\* The reference is an address with a scheme of its own.
FullAddress(ref) == ref[1] \in { "https://", "http://" }

\* The address is on the host of raw contents.
OnRawHost(url) ==
    Len(url) >= 3 /\ url[1] = "https://" /\ url[2] = "raw.githubusercontent.com" /\ url[3] = "/"

\* The text step has returned, has raised; the URL step has returned, has raised.
TextReturned == recordFrame.pc = "url"
TextRaised ==
    recordFrame.pc = "raised" /\ recordResult.error \in { "HTTPError", "FileNotFoundError" }
UrlReturned == recordFrame.pc = "done"
UrlRaised ==
    /\ recordFrame.pc = "raised"
    /\ recordResult.error = "RuntimeError"
    /\ recordResult.message.text = "Could not infer license URL"

\* The requests of the text step, in a state it has returned or raised in, and
\* those of the URL step, in a state that one has returned or raised in: the
\* locating step before them lists the directory when no file is declared.
TextRequests ==
    SubSeq(requests, (IF HasDeclaredFile THEN 0 ELSE 1) + 1, Len(requests))
UrlRequests ==
    SubSeq(requests,
           (IF HasDeclaredFile THEN 0 ELSE 1) + (IF HasEmbeddedText THEN 0 ELSE 1) + 1,
           Len(requests))

\* C22: the text of a record is the text pkgInfo holds, with no request made;
\* or else, for a reference that is a remote address, the content of the one
\* GET of that address, an error status ending the record with the HTTP
\* error; or else what the one file of that name opened in the package
\* directory holds.
C22_TextByPrecedence ==
    (TextReturned \/ TextRaised) =>
        LET ref == recordFrame.licenseFile
            path == RecordDir \o << "/" >> \o ref
            web == recordArgs.env.web
            files == recordArgs.env.files
        IN  IF HasEmbeddedText
            THEN /\ TextReturned
                 /\ recordFrame.licenseText = RecordPkg.license_text
                 /\ TextRequests = << >>
            ELSE IF FetchedRemotely(ref)
            THEN /\ TextRequests = << [op |-> "get", at |-> ref] >>
                 /\ IF ref \in DOMAIN web /\ web[ref].status_code < 400
                    THEN TextReturned /\ recordFrame.licenseText = web[ref].content
                    ELSE TextRaised /\ recordResult.error = "HTTPError"
            ELSE /\ TextRequests = << [op |-> "open", at |-> path] >>
                 /\ IF path \in DOMAIN files
                    THEN TextReturned /\ recordFrame.licenseText = files[path]
                    ELSE TextRaised /\ recordResult.error = "FileNotFoundError"

\* A record that holds a text of its own and declares a remote license file
\* has its text with nothing fetched and nothing opened.
C22_Witness ==
    /\ TextReturned
    /\ HasEmbeddedText
    /\ HasDeclaredFile
    /\ FetchedRemotely(recordFrame.licenseFile)
    /\ recordFrame.licenseFile \in DOMAIN recordArgs.env.web
    /\ recordFrame.licenseText = RecordPkg.license_text
    /\ requests = << >>

\* C23: the URL of a record is the license URL pkgInfo declares, with no
\* probe; or else, for a reference that is a full address, that address (in
\* its page form when it is on the raw host), with no probe; a probe is made
\* only when neither holds, and then of a repository on GitHub always.
C23_UrlByPrecedence ==
    (UrlReturned \/ UrlRaised) =>
        LET ref == recordFrame.licenseFile
        IN  IF HasExplicitUrl
            THEN /\ UrlReturned
                 /\ recordResult.value.license_url = RecordPkg.license_url
                 /\ UrlRequests = << >>
            ELSE IF FullAddress(ref)
            THEN /\ UrlReturned
                 /\ ~OnRawHost(ref) => recordResult.value.license_url = ref
                 /\ UrlRequests = << >>
            ELSE /\ RecordPkg.repository[2] = "github.com" <=> UrlRequests # << >>
                 /\ \A k \in 1..Len(UrlRequests) : UrlRequests[k].op = "get"

\* A record with a license URL of its own, a license file found on disk and
\* a repository on GitHub whose locations are live: no location was probed.
C23_Witness ==
    /\ UrlReturned
    /\ HasExplicitUrl
    /\ ~HasDeclaredFile
    /\ ~HasEmbeddedText
    /\ RecordPkg.repository[2] = "github.com"
    /\ \E u \in DOMAIN recordArgs.env.web : OnRawHost(u)
    /\ Len(requests) = 2
    /\ requests[2].op = "open"

\* The locations probed for a license file of the repository
\* github.com/example/mit-lib, in the order of the list.
Candidates(ref) ==
    LET Raw == << "https://", "raw.githubusercontent.com", "/", "example", "/", "mit-lib" >>
    IN  << Raw \o << "/", "main", "/" >> \o ref,
           Raw \o << "/", "master", "/" >> \o ref,
           Raw \o << "/", "main", "/", "mit-lib", "/" >> \o ref,
           Raw \o << "/", "master", "/", "mit-lib", "/" >> \o ref >>

\* The location answers 200.
Live(url) ==
    url \in DOMAIN recordArgs.env.web /\ recordArgs.env.web[url].status_code = 200

\* C24: when the URL is derived by probing, the locations are requested in
\* the order of the list up to the first live one, which gives the URL, and
\* none after it; with no live location, or a repository that is not on
\* GitHub, the record ends with an error that names the package, the chosen
\* license, the file and the repository, and no URL is returned.
C24_ProbesInOrderUpToFirstLive ==
    ((UrlReturned \/ UrlRaised) /\ ~HasExplicitUrl /\ ~FullAddress(recordFrame.licenseFile)) =>
        LET ref == recordFrame.licenseFile
            urls == Candidates(ref)
            live == { k \in 1..4 : Live(urls[k]) }
            onGitHub == RecordPkg.repository[2] = "github.com"
            Named ==
                /\ UrlRaised
                /\ recordResult.kind = "raise"
                /\ recordResult.message.name = RecordPkg.name
                /\ recordResult.message.license = recordFrame.chosenLicense
                /\ recordResult.message.licenseFile = ref
                /\ recordResult.message.repository
                      = IF onGitHub
                        THEN << "https://", "github.com", "/", "example", "/", "mit-lib" >>
                        ELSE RecordPkg.repository
        IN  IF ~onGitHub
            THEN UrlRequests = << >> /\ Named
            ELSE IF live = {}
            THEN /\ UrlRequests = [k \in 1..4 |-> [op |-> "get", at |-> urls[k]]]
                 /\ Named
            ELSE \E first \in live :
                    /\ \A k \in live : first <= k
                    /\ UrlRequests = [k \in 1..first |-> [op |-> "get", at |-> urls[k]]]
                    /\ UrlReturned
                    /\ recordResult.value.license_url
                          = << "https://", "github.com", "/", "example", "/", "mit-lib",
                               "/", "blob" >> \o SubSeq(urls[first], 7, Len(urls[first]))

\* The second location and the fourth are live and the first is not: two
\* locations were probed and the second gave the URL.
C24_Witness ==
    /\ UrlReturned
    /\ ~HasExplicitUrl
    /\ HasEmbeddedText
    /\ HasDeclaredFile
    /\ ~FullAddress(recordFrame.licenseFile)
    /\ ~Live(Candidates(recordFrame.licenseFile)[1])
    /\ Live(Candidates(recordFrame.licenseFile)[2])
    /\ Live(Candidates(recordFrame.licenseFile)[4])
    /\ Len(requests) = 2
    /\ requests[2].at = Candidates(recordFrame.licenseFile)[2]

\* C25: no URL of a record starts with the prefix of the raw host,
\* https://raw.githubusercontent.com/, whichever branch gave it.
C25_NoUrlOnRawHost ==
    UrlReturned => ~OnRawHost(recordResult.value.license_url)

\* The license expression is one no license is chosen from; no file is
\* declared and the package directory holds no one license file.
NoLicenseChosen == RecordPkg.license = << "Proprietary" >>
NoFileLocated ==
    /\ ~HasDeclaredFile
    /\ Cardinality({ nm \in recordArgs.env.listdir[RecordDir] : nm[1] = "LICENSE" }) # 1

\* C26: the steps run in the order license, file, text, URL: the directory
\* is listed first of all requests and only with a license chosen, the text
\* is requested before any probe, a license that cannot be chosen ends the
\* record with no request made, and a file that cannot be located ends it
\* with nothing fetched, opened or probed.
C26_StepsInOrder ==
    LET textAt == IF HasDeclaredFile THEN 1 ELSE 2
    IN
    /\ \A i \in 1..Len(requests) :
          /\ requests[i].op = "listdir" => i = 1 /\ recordFrame.chosenLicense # None
          /\ requests[i].op = "open" => i = textAt
          /\ requests[i].op # "listdir" => recordFrame.licenseFile # None
    /\ (Len(requests) >= textAt /\ ~HasEmbeddedText) =>
          requests[textAt].at \in { recordFrame.licenseFile,
                                    RecordDir \o << "/" >> \o recordFrame.licenseFile }
    /\ recordFrame.licenseText # None => recordFrame.licenseFile # None
    /\ recordFrame.licenseFile # None => recordFrame.chosenLicense # None
    /\ NoLicenseChosen =>
          /\ requests = << >>
          /\ recordFrame.pc \in { "choose", "raised" }
    /\ (~NoLicenseChosen /\ NoFileLocated) =>
          /\ \A i \in 1..Len(requests) : requests[i].op = "listdir"
          /\ recordFrame.pc \in { "choose", "locate", "raised" }

\* Two license files are in the directory of a package whose locations are
\* live: the record ended on the listing, with nothing fetched or probed.
C26_Witness ==
    /\ recordFrame.pc = "raised"
    /\ ~NoLicenseChosen
    /\ NoFileLocated
    /\ Cardinality(recordArgs.env.listdir[RecordDir]) = 3
    /\ recordArgs.env.web # << >>
    /\ requests = << [op |-> "listdir", at |-> RecordDir] >>

\* C27: for a record with no text of its own, the text step fetches the
\* reference over the network exactly when the URL step takes it for a full
\* address, and opens it as a file of the package directory exactly when the
\* URL step does not.
C27_TextAndUrlAgreeOnRemote ==
    ((TextReturned \/ TextRaised) /\ ~HasEmbeddedText) =>
        /\ TextRequests[1].op = "get" <=> FullAddress(recordFrame.licenseFile)
        /\ TextRequests[1].op = "open" <=> ~FullAddress(recordFrame.licenseFile)

(***************************************************************************)
(* Claims about the table of license file names.                           *)
(***************************************************************************)

\* The names the table holds for a key beyond the generic ones.
SpecificNames(key) == COMMON_LICENSE_FILE_NAMES(key) \ COMMON_LICENSE_FILE_NAMES(<< >>)

\* C28: every key of the table of license file names other than the generic
\* one is a license of the preference list, so that for each such key there
\* is a license pick_most_acceptable_license can choose for which
\* _find_license_file takes the names of that key next to the generic ones:
\* a file of a package directory that bears a name of a key is a file
\* _find_license_file takes for the license of that key.
C28_KeysAreChosenLicenses ==
    \A key \in COMMON_LICENSE_FILE_NAME_KEYS \ { << >> } :
        (LocateDone /\ \E nm \in listdir : Lower(nm) \in SpecificNames(key)) =>
            /\ \E i \in 1..Len(LICENSES_IN_PREFERENCE_ORDER) :
                  LICENSES_IN_PREFERENCE_ORDER[i] = key
            /\ \E i \in 1..Len(LICENSES_IN_PREFERENCE_ORDER) :
                  SpecificNames(key) \subseteq LicenseFileNames(LICENSES_IN_PREFERENCE_ORDER[i])

(***************************************************************************)
(* Claims about the groups as a partition of the infos.                    *)
(***************************************************************************)

\* The places of the returned groups: a group and a position in its list.
GroupPlaces ==
    UNION { { << g, k >> : k \in 1..Len(groups.value[g].dependencies) } :
              g \in 1..Len(groups.value) }

\* The places that hold the info d.
PlacesOf(d) == { p \in GroupPlaces : groups.value[p[1]].dependencies[p[2]] = d }

\* C29: the returned groups are a partition of the infos given: every info is
\* at one place of one group, the groups hold no info besides, no group is
\* empty, and every member of a group has the license of the group.
C29_GroupsPartitionTheInfos ==
    groups.kind = "return" =>
        /\ \A i \in 1..Len(deps) : Cardinality(PlacesOf(deps[i])) = 1
        /\ Cardinality(GroupPlaces) = Len(deps)
        /\ \A g \in 1..Len(groups.value) :
              /\ Len(groups.value[g].dependencies) >= 1
              /\ \A k \in 1..Len(groups.value[g].dependencies) :
                    groups.value[g].dependencies[k].license = groups.value[g].license

\* Two infos of one license and one text make one group of two.
C29_Witness ==
    /\ groups.kind = "return"
    /\ Len(deps) = 2
    /\ deps[1].license = << "MIT" >>
    /\ Len(groups.value) = 1
    /\ Len(groups.value[1].dependencies) = 2

(***************************************************************************)
(* Claims about the output of the script.                                  *)
(***************************************************************************)

\* C30: when the resolution of the dependencies or of their licenses fails,
\* in the markdown and in the pom format, nothing has been written to the
\* output, not even its first lines.
C30_NothingWrittenWhenResolutionFails ==
    (printPc \in { "grouping", "pom-grouping", "raised" } /\ frame.pc = "raised") => file = << >>

====
